---- MODULE Spec2Model ----
(***************************************************************************)
(* A model of egui_deferred_table (src/src/lib.rs).                        *)
(*                                                                         *)
(* The specifications that share the module:                               *)
(*   SpecReorder  apply_reordering and map_index, driven the way the       *)
(*                reordering tests and the demos drive them;               *)
(*   SpecWindow   range_and_index_for_offset, the viewport windower;       *)
(*   Spec         DeferredTable::show, one step per frame, with resize     *)
(*                drags; SpecHeld the same from a held drag, SpecDragDrop  *)
(*                with header drops, SpecBrowse with scrolling and         *)
(*                clicks, SpecLayout with sized, ordered, filtered axes.   *)
(*                                                                         *)
(* Rust indices are 0-based; a Vec is a TLA+ sequence, so element i of a   *)
(* Vec v is v[i + 1].  Pixel quantities (f32 in the source) are whole      *)
(* numbers of pixels here.                                                 *)
(***************************************************************************)
EXTENDS Integers, Sequences, FiniteSets, TLC

VARIABLES
    \* ---- apply_reordering / map_index harness
    ordering,       \* the caller's Option<Vec<usize>>
    initial,        \* its value before the first call
    from,           \* argument of apply_reordering
    to,             \* argument of apply_reordering
    calls,          \* how many times apply_reordering(ordering, from, to) ran
    before,         \* the value of ordering before the last call
    panicked,       \* an unwrap() of apply_reordering failed
    mapped,         \* the last map_index call: its arguments and its result
    \* ---- windower harness: the windowing step of show_inner for one axis
    w_kind,         \* "row" or "column": the axis being windowed
    w_in,           \* values, map, filter, sizing and the body-origin offset
    w_first,        \* range_and_index_for_offset at the body-origin offset
    w_last,         \* range_and_index_for_offset at the viewport's far edge
    \* ---- DeferredTableTempState
    cell_origin,    \* CellIndex of the top-left cell
    drag_state,     \* Option<DragState>
    \* ---- DeferredTablePersistentState
    column_widths,  \* Vec<f32>, by data index
    row_heights,    \* Vec<f32>, by data index
    \* ---- the caller and egui
    config,         \* what the caller builds the table with: the AxisParameters lists
    egui_drag,      \* the widget id egui holds as being dragged, if any
    dnd_payload,    \* the DndPayload egui holds for a header drag, if any
    drags,          \* how many drags have started
    frame,          \* the last call of show: its snapshot and what it did
    user_sized      \* the (axis, data index) slots last written by a resize commit

reorderVars == <<ordering, initial, from, to, calls, before, panicked, mapped>>

windowVars == <<w_kind, w_in, w_first, w_last>>

restVars ==
    <<drag_state, column_widths, row_heights, config, egui_drag, dnd_payload, drags, frame,
      user_sized>>

tableVars == <<cell_origin, restVars>>

vars == <<reorderVars, windowVars, tableVars>>

(***************************************************************************)
(* Bounds of the model.                                                    *)
(***************************************************************************)
MaxIndex == 3       \* from, to and ordering entries range over 0..MaxIndex
MaxLen == 4         \* longest enumerated initial ordering
MaxCalls == 2       \* repeated calls of apply_reordering with the same arguments
MaxCount == 3       \* largest dimension count handed to map_index
MaxPos == 3         \* largest visible position handed to map_index
MaxCells == 5       \* longest uniform axis handed to the windower
MaxAxisLen == 2     \* longest non-uniform axis handed to the windower
MaxExtent == 3      \* largest viewport extent (far edge - body origin) of the harness
MaxDim == 2         \* largest dimension count of the focus axis of a table
MaxItems == 3       \* largest dimension count of the focus axis of a browsed table
MaxScroll == 2       \* a browsed table is scrolled by 0..MaxScroll default cells
MaxDrags == 1       \* drags started on a table
Nudge == 7          \* a small pointer displacement, in pixels
Far == 1000         \* an extreme pointer displacement, in pixels

(***************************************************************************)
(* Helpers.                                                                *)
(***************************************************************************)
Max(a, b) == IF a >= b THEN a ELSE b
Min(a, b) == IF a <= b THEN a ELSE b

\* Option<Vec<usize>>
None == [some |-> FALSE, v |-> <<>>]
Some(s) == [some |-> TRUE, v |-> s]

\* 0-based slice access: v.get(i)
Has(v, i) == i >= 0 /\ i < Len(v)
At(v, i) == v[i + 1]

\* all sequences over S of length n, and of length at most n
SeqsOfLen(S, n) == [1..n -> S]
SeqsUpTo(S, n) == UNION {SeqsOfLen(S, k) : k \in 0..n}

IsPermutation(v) == \A x \in 0..(Len(v) - 1) : \E i \in 1..Len(v) : v[i] = x
PermsUpTo(n) == {v \in UNION {SeqsOfLen(0..(k - 1), k) : k \in 0..n} : IsPermutation(v)}

\* Vec::remove(pos) and Vec::insert(pos, x), 0-based
Remove(v, pos) == [i \in 1..(Len(v) - 1) |-> IF i <= pos THEN v[i] ELSE v[i + 1]]
Insert(v, pos, x) ==
    [i \in 1..(Len(v) + 1) |-> IF i <= pos THEN v[i] ELSE IF i = pos + 1 THEN x ELSE v[i - 1]]

\* iter().position(|&x| x == value): the first index holding value, -1 when there is none
Position(v, value) ==
    IF \E i \in 1..Len(v) : v[i] = value
    THEN (CHOOSE i \in 1..Len(v) : v[i] = value /\ \A j \in 1..(i - 1) : v[j] # value) - 1
    ELSE -1

(***************************************************************************)
(* apply_reordering, src/src/lib.rs:1622-1660.                             *)
(***************************************************************************)
RECURSIVE Expand(_, _)
\* while ordering.len() <= max_index { ordering.push(ordering.len()) }
Expand(v, max_index) ==
    IF Len(v) <= max_index THEN Expand(Append(v, Len(v)), max_index) ELSE v

\* mutant: the removal of `from` is forgotten
MoveTo_NoRemove(v, from_pos, to_pos, f) == Insert(v, to_pos, f)

\* mutant: the target index is shifted to account for the removal
MoveTo_ShiftedTarget(v, from_pos, to_pos, f) ==
    Insert(Remove(v, from_pos), IF to_pos > from_pos THEN to_pos - 1 ELSE to_pos, f)

\* mutant: no early return for from == to
apply_reordering_NoEarlyReturn(o, f, t) ==
    LET v == Expand(IF o.some THEN o.v ELSE <<>>, Max(f, t))
    IN  IF Position(v, f) < 0 \/ Position(v, t) < 0
        THEN [ordering |-> Some(v), panicked |-> TRUE]
        ELSE [ordering |-> Some(Insert(Remove(v, Position(v, f)), Position(v, t), f)),
              panicked |-> FALSE]

\* mutant: the position of `to` is looked up again after the removal
MoveTo_Recomputed(v, from_pos, to_pos, f) ==
    Insert(Remove(v, from_pos), Position(Remove(v, from_pos), At(v, to_pos)), f)

\* Part 2: remove `from`, insert it at the position `to` had before the removal
MoveTo(v, from_pos, to_pos, f) == Insert(Remove(v, from_pos), to_pos, f)

\* the whole function: the new Option and whether an unwrap() panicked
apply_reordering(o, f, t) ==
    IF f = t THEN [ordering |-> o, panicked |-> FALSE]
    ELSE LET v0 == IF o.some THEN o.v ELSE <<>>
             v == Expand(v0, Max(f, t))
             from_pos == Position(v, f)
             to_pos == Position(v, t)
         IN  IF from_pos < 0 \/ to_pos < 0
             THEN [ordering |-> Some(v), panicked |-> TRUE]
             ELSE [ordering |-> Some(MoveTo(v, from_pos, to_pos, f)), panicked |-> FALSE]

(***************************************************************************)
(* DeferredTable::map_index, src/src/lib.rs:1052-1061.                     *)
(***************************************************************************)
\* mutant: the out-of-range check is missing
map_index_NoStaleCheck(count, row_ordering, visible_row_index) ==
    IF Has(row_ordering, visible_row_index)
    THEN At(row_ordering, visible_row_index)
    ELSE visible_row_index

map_index(count, row_ordering, visible_row_index) ==
    LET mapped_row_index ==
            IF Has(row_ordering, visible_row_index)
            THEN At(row_ordering, visible_row_index)
            ELSE visible_row_index
    IN  IF mapped_row_index >= count THEN visible_row_index ELSE mapped_row_index

\* the record of a map_index call, before any call
NoMapping == [count |-> 0, ordering |-> <<>>, position |-> 0, result |-> 0, called |-> FALSE]

(***************************************************************************)
(* range_and_index_for_offset, src/src/lib.rs:356-400.                     *)
(***************************************************************************)
\* filter.contains(&index) on an Option<&[usize]>
Contains(v, x) == \E i \in 1..Len(v) : v[i] = x
\* a filter check that finds nothing filtered
IsFiltered_Never(filter, index) == FALSE

IsFiltered(filter, index) == filter.some /\ Contains(filter.v, index)

\* the loop variables on entry: visible_index, min, max, filtered
WalkStart == [visible_index |-> 0, min |-> 0, max |-> 0, filtered |-> 0]

\* mutant: a filtered position is skipped without being counted
SkipFiltered_NoCount(st) == [st EXCEPT !.visible_index = @ + 1]

\* mutant: a filtered position is counted twice
SkipFiltered_CountedTwice(st) == [st EXCEPT !.visible_index = @ + 1, !.filtered = @ + 2]

\* visible_index += 1; filtered += 1; continue
SkipFiltered(st) == [st EXCEPT !.visible_index = @ + 1, !.filtered = @ + 1]

\* mutant: the upper end of the range is taken as inside it
InRange_Inclusive(offset, min, max) == offset >= min /\ offset <= max

\* if offset >= min && offset < max
InRange(offset, min, max) == offset >= min /\ offset < max

\* mutant: a mapped index beyond the values is not replaced by the position
WalkIndex_NoFallback(values, map, visible_index) ==
    IF Has(map, visible_index) THEN At(map, visible_index) ELSE visible_index

\* index = *map.get(visible_index).unwrap_or(&visible_index), out-of-range handled
WalkIndex(values, map, visible_index) ==
    LET index == IF Has(map, visible_index) THEN At(map, visible_index) ELSE visible_index
    IN  IF index >= Len(values) THEN visible_index ELSE index

Err == [ok |-> FALSE, min |-> 0, max |-> 0, index |-> 0, visible_index |-> 0, filtered |-> 0]
Ok(min, max, index, visible_index, filtered) ==
    [ok |-> TRUE, min |-> min, max |-> max, index |-> index,
     visible_index |-> visible_index, filtered |-> filtered]

RECURSIVE Walk(_, _, _, _, _, _)
Walk(offset, values, map, filter, sizing, st) ==
    LET index == WalkIndex(values, map, st.visible_index)
    IN  IF ~Has(values, index)
        THEN IF st.visible_index = 0
             THEN Err
             ELSE Ok(st.min, st.max, index, st.visible_index, st.filtered)
        ELSE IF IsFiltered(filter, index)
        THEN Walk(offset, values, map, filter, sizing, SkipFiltered(st))
        ELSE LET size == At(values, index) + sizing
                 max == st.max + size
             IN  IF InRange(offset, st.min, max)
                 THEN Ok(st.min, max, index, st.visible_index, st.filtered)
                 ELSE Walk(offset, values, map, filter, sizing,
                           [st EXCEPT !.min = @ + size, !.max = max, !.visible_index = @ + 1])

range_and_index_for_offset(offset, values, map, filter, sizing) ==
    Walk(offset, values, map, filter, sizing, WalkStart)

(***************************************************************************)
(* The windowing step of show_inner for one axis, src/src/lib.rs:402-428.  *)
(***************************************************************************)
CellSizes == {1, 2}     \* inner sizes of a cell, in pixels
Sizings == {1, 2}       \* outer_inner_difference + 1.0 for an item spacing of 0 or 1

UniformValues(n, size) == [i \in 1..n |-> size]
IsUniform(values) == \A i \in 1..Len(values) : values[i] = values[1]

AxisInput(values, map, filter, sizing, offset) ==
    [values |-> values, map |-> map, filter |-> filter, sizing |-> sizing, offset |-> offset]

\* a uniform axis of up to MaxCells cells, no ordering or the identity ordering, no
\* filter or one filtered index, every offset on the axis and two past its end
UniformInputs ==
    UNION { { AxisInput(UniformValues(n, size), map, filter, sizing, offset) :
                map \in {<<>>, [i \in 1..n |-> i - 1]},
                filter \in {None} \cup {Some(<<k>>) : k \in 0..(n - 1)},
                offset \in 0..(n * (size + sizing) + 1) } :
            n \in 1..MaxCells, size \in CellSizes, sizing \in Sizings }

\* a grid of 10 rows and 5 columns of 50 x 20 cells (outer extent), every offset
ExampleInputs ==
    { AxisInput(UniformValues(5, 49), <<>>, None, 1, offset) : offset \in 0..250 }
    \cup { AxisInput(UniformValues(10, 19), <<>>, None, 1, offset) : offset \in 0..200 }

\* short axes of any sizes, with orderings that may hold stale or duplicate entries
\* and filters that may hide every index or name an index beyond the axis
GeneralInputs ==
    { AxisInput(values, map, filter, sizing, offset) :
        values \in SeqsUpTo(CellSizes, MaxAxisLen),
        map \in SeqsUpTo(0..MaxAxisLen, MaxAxisLen),
        filter \in {None, Some(<<>>), Some([i \in 1..(MaxAxisLen + 1) |-> i - 1])}
                      \cup {Some(<<k>>) : k \in 0..MaxAxisLen},
        sizing \in {1},
        offset \in 0..(MaxAxisLen * 3 + 1) }

NotQueried == [called |-> FALSE, offset |-> 0, result |-> Err]

WindowIdle ==
    /\ w_kind = "column"
    /\ w_in = AxisInput(<<>>, <<>>, None, 1, 0)
    /\ w_first = NotQueried
    /\ w_last = NotQueried

\* CellIndex::default()
OriginZero == [row |-> 0, column |-> 0]

\* Option<f32>, Option<DragState>, Option<DragAction>: the record shape of
\* Option<Vec<usize>>, with v a placeholder when absent
NoSize == [some |-> FALSE, v |-> 0]
NoPos == [some |-> FALSE, v |-> [x |-> 0, y |-> 0]]
NoDrag ==
    [some |-> FALSE,
     v |-> [index |-> 0, start_pos |-> [x |-> 0, y |-> 0], cell_kind |-> "Corner",
            initial_size |-> 0]]
NoAction == [some |-> FALSE, v |-> [kind |-> "None", index |-> 0, size |-> 0]]

\* no widget: the pointer drags nothing
NoWidget == [kind |-> "none", key |-> 0]

\* no DndPayload held by egui's DragAndDrop
NoPayload == [some |-> FALSE, v |-> [cell_kind |-> "Corner", index |-> 0]]

\* the frame record before the first call of show
NoFrame ==
    [shown |-> FALSE, panicked |-> FALSE,
     dimensions |-> [row_count |-> 0, column_count |-> 0],
     view |-> [scroll |-> [x |-> 0, y |-> 0], viewport |-> [x |-> 0, y |-> 0]],
     over |-> NoWidget, pressed |-> NoWidget,
     ensured |-> [column |-> <<>>, row |-> <<>>],
     commit |-> NoAction, staged |-> NoAction, repaint |-> FALSE, actions |-> <<>>,
     content |-> [x |-> 0, y |-> 0], pressable |-> {}, headers |-> <<>>, cells |-> <<>>,
     calls |-> <<>>]

NoConfig ==
    [use |-> "resize", focus |-> "column", items |-> 0,
     column_parameters |-> None, row_parameters |-> None,
     column_ordering |-> <<>>, row_ordering |-> <<>>,
     columns_to_filter |-> None, rows_to_filter |-> None]

TableIdle ==
    /\ cell_origin = OriginZero
    /\ drag_state = NoDrag
    /\ column_widths = <<>>
    /\ row_heights = <<>>
    /\ config = NoConfig
    /\ egui_drag = NoWidget
    /\ dnd_payload = NoPayload
    /\ drags = 0
    /\ frame = NoFrame
    /\ user_sized = {}

ReorderIdle ==
    /\ ordering = None
    /\ initial = None
    /\ before = None
    /\ from = 0
    /\ to = 0
    /\ calls = 0
    /\ mapped = NoMapping

InitWindow ==
    /\ w_kind \in {"row", "column"}
    /\ w_in \in UniformInputs \cup ExampleInputs \cup GeneralInputs
    /\ w_first = NotQueried
    /\ w_last = NotQueried
    /\ panicked = FALSE
    /\ ReorderIdle
    /\ TableIdle

\* first_column / first_row: the window at cells_viewport_rect.min, then
\* temp_state.cell_origin (src/src/lib.rs:403-404, 423-428); unwrap() panics on Err
QueryFirst ==
    /\ ~panicked
    /\ ~w_first.called
    /\ LET r == range_and_index_for_offset(w_in.offset, w_in.values, w_in.map,
                                           w_in.filter, w_in.sizing)
       IN  /\ w_first' = [called |-> TRUE, offset |-> w_in.offset, result |-> r]
           /\ panicked' = ~r.ok
           /\ cell_origin' = IF r.ok
                             THEN [cell_origin EXCEPT ![w_kind] = r.visible_index]
                             ELSE cell_origin
    /\ UNCHANGED <<w_kind, w_in, w_last, ordering, initial, from, to, calls, before, mapped,
                   restVars>>

\* last_column / last_row: the window at viewport_rect.max (src/src/lib.rs:407-408)
QueryLast ==
    /\ ~panicked
    /\ w_first.called
    /\ ~w_last.called
    /\ \E extent \in 0..MaxExtent :
         LET r == range_and_index_for_offset(w_in.offset + extent, w_in.values, w_in.map,
                                             w_in.filter, w_in.sizing)
         IN  /\ w_last' = [called |-> TRUE, offset |-> w_in.offset + extent, result |-> r]
             /\ panicked' = ~r.ok
    /\ UNCHANGED <<w_kind, w_in, w_first, cell_origin, ordering, initial, from, to, calls,
                   before, mapped, restVars>>

NextWindow == QueryFirst \/ QueryLast

SpecWindow == InitWindow /\ [][NextWindow]_vars

(***************************************************************************)
(* The cases of reordering_tests::test_apply_reordering,                   *)
(* src/src/lib.rs:1667-1681: from, to, ordering, expected.                 *)
(***************************************************************************)
TestCases ==
    { [from |-> 0, to |-> 1, ordering |-> <<1, 0>>, expected |-> <<0, 1>>],
      [from |-> 4, to |-> 0, ordering |-> <<0, 1, 2, 3, 4, 5, 6>>,
       expected |-> <<4, 0, 1, 2, 3, 5, 6>>],
      [from |-> 10, to |-> 0, ordering |-> <<>>,
       expected |-> <<10, 0, 1, 2, 3, 4, 5, 6, 7, 8, 9>>],
      [from |-> 0, to |-> 1, ordering |-> <<>>, expected |-> <<1, 0>>],
      [from |-> 1, to |-> 0, ordering |-> <<1, 0>>, expected |-> <<0, 1>>],
      [from |-> 1, to |-> 0, ordering |-> <<1, 0, 2, 3, 4>>, expected |-> <<0, 1, 2, 3, 4>>],
      [from |-> 4, to |-> 0, ordering |-> <<>>, expected |-> <<4, 0, 1, 2, 3>>],
      [from |-> 4, to |-> 3, ordering |-> <<4, 0, 1, 2, 3, 5, 6>>,
       expected |-> <<0, 1, 2, 3, 4, 5, 6>>],
      [from |-> 10, to |-> 9, ordering |-> <<10, 0, 1, 2, 3, 4, 5, 6, 7, 8, 9>>,
       expected |-> <<0, 1, 2, 3, 4, 5, 6, 7, 8, 9, 10>>],
      [from |-> 0, to |-> 0, ordering |-> <<>>, expected |-> <<>>],
      [from |-> 4, to |-> 4, ordering |-> <<0, 1>>, expected |-> <<0, 1>>] }

\* the orderings a caller may hold: absent, any permutation of 0..n (n <= MaxLen),
\* and short sequences that are no permutation (stale or duplicate entries)
OrderingInputs ==
    {None} \cup {Some(v) : v \in PermsUpTo(MaxLen)} \cup {Some(v) : v \in SeqsUpTo(0..MaxIndex, 2)}

InitReorder ==
    /\ \/ /\ initial \in OrderingInputs
          /\ from \in 0..MaxIndex
          /\ to \in 0..MaxIndex
       \/ \E c \in TestCases :
            /\ initial = Some(c.ordering)
            /\ from = c.from
            /\ to = c.to
    /\ ordering = initial
    /\ before = initial
    /\ calls = 0
    /\ panicked = FALSE
    /\ mapped = NoMapping
    /\ WindowIdle
    /\ TableIdle

\* test_apply_reordering (src/src/lib.rs:1688-1689) and the demos' action handlers
\* (src/demos/docking/src/main.rs:373-376): apply_reordering(&mut ordering, from, to)
ApplyReordering ==
    /\ calls < MaxCalls
    /\ ~panicked
    /\ LET r == apply_reordering(ordering, from, to)
       IN  /\ ordering' = r.ordering
           /\ panicked' = r.panicked
    /\ before' = ordering
    /\ calls' = calls + 1
    /\ UNCHANGED <<initial, from, to, mapped, windowVars, tableVars>>

\* show_inner maps a visible position through the caller's ordering
\* (src/src/lib.rs:287-288 unwrap_or_default, 451, 489)
MapIndex ==
    /\ ~panicked
    /\ \E count \in 0..MaxCount, p \in 0..MaxPos :
         mapped' = [count |-> count, ordering |-> ordering.v, position |-> p,
                    result |-> map_index(count, ordering.v, p), called |-> TRUE]
    /\ UNCHANGED <<ordering, initial, from, to, calls, before, panicked, windowVars, tableVars>>

NextReorder == ApplyReordering \/ MapIndex

SpecReorder == InitReorder /\ [][NextReorder]_vars

(***************************************************************************)
(* DeferredTable::show, src/src/lib.rs:92-996: what a frame reads.         *)
(***************************************************************************)

\* f32::INFINITY: no size the model reaches is as large
Infinity == 1000000

\* style.interaction.resize_grab_radius_side
resize_grab_radius_side == 5

\* (resize_grab_radius_side * 2.0) + 2.0
minimum_resize_size == (resize_grab_radius_side * 2) + 2

\* default_cell_size.unwrap_or((interact_size.x * 1.5, interact_size.y)), with
\* egui's interact_size of (40, 18)
inner_cell_size == [x |-> 60, y |-> 18]

\* style.spacing.item_spacing, (8, 3) in egui's default style
item_spacing == [x |-> 8, y |-> 3]

\* outer_size(cell_size, style)
outer_size(cell_size) == [x |-> cell_size.x + item_spacing.x, y |-> cell_size.y + item_spacing.y]

outer_cell_size == outer_size(inner_cell_size)

\* outer_cell_size - inner_cell_size
outer_inner_difference ==
    [x |-> outer_cell_size.x - inner_cell_size.x, y |-> outer_cell_size.y - inner_cell_size.y]

\* the component of a Vec2 or Pos2 along an axis
Along(v, axis) == IF axis = "column" THEN v.x ELSE v.y

\* Rangef::clamp
Clamp(range, x) == Max(range.min, Min(range.max, x))

\* f32::at_least
AtLeast(x, lower) == Max(x, lower)

\* an AxisParameters value (name and monospace play no part in sizing)
AxisParameters(default_dimension, min, max, resizable) ==
    [default_dimension |-> default_dimension,
     dimension_range |-> [min |-> min, max |-> max],
     resizable |-> resizable]

\* AxisParameters::default()
DefaultParameters == AxisParameters(NoSize, 10, Infinity, TRUE)

\* the parameter sets of the docking demo's FIELD_PARAMS
Bounded == AxisParameters(Some(100), 50, 400, TRUE)
Fixed == AxisParameters(Some(80), 0, 0, FALSE)

\* the AxisParameters of a data index: the caller's entry, or the default
ParametersFor(parameters, index) ==
    IF parameters.some /\ Has(parameters.v, index) THEN At(parameters.v, index)
    ELSE DefaultParameters

\* the ensure-capacity step that resizes to the count whichever way it differs
EnsureCapacity_Truncating(sizes, count, default_size, parameters) ==
    [panicked |-> FALSE,
     sizes |-> [i \in 1..count |-> IF i <= Len(sizes) THEN sizes[i] ELSE default_size]]

\* the default size a parameter entry asks for
SanitizedDefault(p) ==
    IF p.resizable THEN Clamp(p.dimension_range, p.default_dimension.v)
    ELSE p.default_dimension.v

\* "ensure there is a column width for each possible column" and the same
\* for rows: resize up to the count, then write the default of every entry
\* of the parameter list that has one, at the entry's own index
EnsureCapacity(sizes, count, default_size, parameters) ==
    IF Len(sizes) < count
    THEN LET resized == [i \in 1..count |-> IF i <= Len(sizes) THEN sizes[i] ELSE default_size]
             list == parameters.v
         IN  IF ~parameters.some THEN [panicked |-> FALSE, sizes |-> resized]
             ELSE IF \E i \in 1..Len(list) : list[i].default_dimension.some /\ i > count
                  THEN [panicked |-> TRUE, sizes |-> sizes]
                  ELSE [panicked |-> FALSE,
                        sizes |-> [i \in 1..count |->
                                    IF i <= Len(list) /\ list[i].default_dimension.some
                                    THEN SanitizedDefault(list[i])
                                    ELSE resized[i]]]
    ELSE [panicked |-> FALSE, sizes |-> sizes]

(***************************************************************************)
(* The header pass of show_inner for one axis, src/src/lib.rs:444-830.     *)
(* Grid row 0 holds the corner and the column headers, grid column 0 the   *)
(* row headers; the pass reaches them in that order.  An axis record holds *)
(* what the pass reads of one axis: the axis kind, its dimension count,    *)
(* the size store, ordering, filter and AxisParameters list, the origin    *)
(* and visible count of the window, the near edge of the window rect       *)
(* (start), and the viewport's extent along the axis and across it.        *)
(***************************************************************************)
CellKindOf(axis) == IF axis = "column" THEN "ColumnHeader" ELSE "RowHeader"

\* ui.id().with("resize_column").with(mapped_column_index) and
\* ui.id().with("resize_row").with(grid_row_index)
ResizeId(axis, mapped_index, grid_index) ==
    IF axis = "column" THEN [kind |-> "resize_column", key |-> mapped_index]
    ELSE [kind |-> "resize_row", key |-> grid_index]

\* Some(DragState { index, start_pos, cell_kind, initial_size })
SomeDrag(index, start_pos, cell_kind, initial_size) ==
    [some |-> TRUE,
     v |-> [index |-> index, start_pos |-> start_pos, cell_kind |-> cell_kind,
            initial_size |-> initial_size]]

\* Some(DragAction::SetWidth(index, size)) and Some(DragAction::SetHeight(index, size))
SomeAction(axis, index, size) ==
    [some |-> TRUE,
     v |-> [kind |-> IF axis = "column" THEN "SetWidth" ELSE "SetHeight",
            index |-> index, size |-> size]]

\* pointer_pos.map_or(Vec2::ZERO, |current_pos| current_pos - start_pos), along the axis
DragDelta(axis, pointer_pos, start_pos) ==
    IF pointer_pos.some THEN Along(pointer_pos.v, axis) - Along(start_pos, axis) ELSE 0

\* the size a drag asks for: a column is clamped to its dimension_range and
\* then raised to minimum_resize_size, a row is clamped to
\* minimum_resize_size..INFINITY whatever its AxisParameters say
ResizedSize(axis, parameters, initial_size, drag_delta) ==
    LET new_outer == initial_size + drag_delta
        new_inner == new_outer - Along(outer_inner_difference, axis)
    IN  IF axis = "column"
        THEN AtLeast(Clamp(parameters.dimension_range, new_inner), minimum_resize_size)
        ELSE Clamp([min |-> minimum_resize_size, max |-> Infinity], new_inner)

\* what the pass carries from cell to cell: the drag state, clear_drag_state
\* and drag_action of show_inner, the actions pushed so far, the payload egui
\* holds for a header drag, the number of cells allocated in the ui (their
\* auto ids), and what was laid out: resize handles, header cells; staged
\* is new_column_width or new_row_height of the dragged header and its
\* index, if the header is reached
PassStart(temp_drag_state, payload) ==
    [drag_state |-> temp_drag_state, clear_drag_state |-> FALSE, drag_action |-> NoAction,
     staged |-> NoAction, actions |-> <<>>, payload |-> payload, next_id |-> 0,
     handles |-> {}, grabbable |-> {}, headers |-> <<>>]

\* resize_interact_rect, the resize line widened by the grab radius, meets
\* the viewport: the pointer can reach the handle
InView(a, edge) ==
    edge - resize_grab_radius_side <= a.viewport /\ edge + resize_grab_radius_side >= 0

\* the resize handle without the check that no drag is held
ResizeHandle_Replacing(a, st, input, mapped_index, grid_index, inner_size, outer_size_, edge) ==
    LET id == ResizeId(a.kind, mapped_index, grid_index)
        parameters == ParametersFor(a.parameters, mapped_index)
        cell_kind == CellKindOf(a.kind)
        laid == [st EXCEPT !.handles = @ \cup {id},
                           !.grabbable = IF InView(a, edge) THEN @ \cup {id} ELSE @]
    IN  IF a.kind = "column" /\ ~parameters.resizable THEN laid
        ELSE LET now ==
                     IF input.drag_started = id
                     THEN IF input.pointer_pos.some
                          THEN SomeDrag(mapped_index, input.pointer_pos.v, cell_kind, outer_size_)
                          ELSE NoDrag
                     ELSE st.drag_state
                 clear == st.clear_drag_state \/ input.drag_stopped = id
                 dragging == /\ now.some
                             /\ now.v.index = mapped_index
                             /\ now.v.cell_kind = cell_kind
                 new_size == ResizedSize(a.kind, parameters, now.v.initial_size,
                                         DragDelta(a.kind, input.pointer_pos, now.v.start_pos))
             IN  [laid EXCEPT !.drag_state = now,
                              !.clear_drag_state = clear,
                              !.drag_action = IF dragging /\ new_size # inner_size
                                              THEN SomeAction(a.kind, mapped_index, new_size)
                                              ELSE @,
                              !.staged = IF dragging
                                         THEN SomeAction(a.kind, mapped_index, new_size)
                                         ELSE @]

\* the resize handle of one header cell, src/src/lib.rs:580-690
ResizeHandle(a, st, input, mapped_index, grid_index, inner_size, outer_size_, edge) ==
    LET id == ResizeId(a.kind, mapped_index, grid_index)
        parameters == ParametersFor(a.parameters, mapped_index)
        cell_kind == CellKindOf(a.kind)
        laid == [st EXCEPT !.handles = @ \cup {id},
                           !.grabbable = IF InView(a, edge) THEN @ \cup {id} ELSE @]
    IN  IF a.kind = "column" /\ ~parameters.resizable THEN laid
        ELSE LET now ==
                     IF input.drag_started = id /\ ~st.drag_state.some
                     THEN IF input.pointer_pos.some
                          THEN SomeDrag(mapped_index, input.pointer_pos.v, cell_kind, outer_size_)
                          ELSE NoDrag
                     ELSE st.drag_state
                 clear == st.clear_drag_state \/ input.drag_stopped = id
                 dragging == /\ now.some
                             /\ now.v.index = mapped_index
                             /\ now.v.cell_kind = cell_kind
                 new_size == ResizedSize(a.kind, parameters, now.v.initial_size,
                                         DragDelta(a.kind, input.pointer_pos, now.v.start_pos))
             IN  [laid EXCEPT !.drag_state = now,
                              !.clear_drag_state = clear,
                              !.drag_action = IF dragging /\ new_size # inner_size
                                              THEN SomeAction(a.kind, mapped_index, new_size)
                                              ELSE @,
                              !.staged = IF dragging
                                         THEN SomeAction(a.kind, mapped_index, new_size)
                                         ELSE @]

\* ui.allocate_rect(cell_clip_rect, Sense::click_and_drag()): the id is the
\* next auto id of the ui, the count of the cells allocated before this one
HeaderId(st) == [kind |-> "header", key |-> st.next_id]

\* Action::ColumnReorder { from, to } and Action::RowReorder { from, to }
Reorder(cell_kind, from_index, to_index) ==
    [kind |-> IF cell_kind = "ColumnHeader" THEN "ColumnReorder" ELSE "RowReorder",
     from |-> from_index, to |-> to_index]

\* Some(DndPayload { cell_kind, index })
SomePayload(cell_kind, index) == [some |-> TRUE, v |-> [cell_kind |-> cell_kind, index |-> index]]

\* the corner cell, allocated first; it carries no payload and takes no drop
CornerCell(st, hoverable) ==
    [st EXCEPT !.next_id = @ + 1,
               !.headers = Append(@, [cell_kind |-> "Corner", index |-> 0,
                                      size |-> inner_cell_size.x, id |-> HeaderId(st),
                                      hoverable |-> hoverable])]

\* the drag and drop of a header cell that pushes a reorder action for any
\* payload of another index, of its own kind or not
HeaderCell_AnyKind(a, st, input, mapped_index, inner_size, hoverable) ==
    LET id == HeaderId(st)
        cell_kind == CellKindOf(a.kind)
        held == IF input.dragged = id /\ input.event = "none"
                THEN SomePayload(cell_kind, mapped_index)
                ELSE st.payload
        released == input.event = "release" /\ input.over = id /\ held.some
    IN  [st EXCEPT !.next_id = @ + 1,
                   !.headers = Append(@, [cell_kind |-> cell_kind, index |-> mapped_index,
                                          size |-> inner_size, id |-> id,
                                          hoverable |-> hoverable]),
                   !.payload = IF released THEN NoPayload ELSE held,
                   !.actions = IF released /\ held.v.index # mapped_index
                               THEN Append(@, Reorder(cell_kind, held.v.index, mapped_index))
                               ELSE @]

\* the drag and drop of one header cell, src/src/lib.rs:702-721 and 783-819:
\* a dragged header sets the payload, a header the pointer is released over
\* takes it and pushes a reorder action for a like payload of another index
HeaderCell(a, st, input, mapped_index, inner_size, hoverable) ==
    LET id == HeaderId(st)
        cell_kind == CellKindOf(a.kind)
        held == IF input.dragged = id /\ input.event = "none"
                THEN SomePayload(cell_kind, mapped_index)
                ELSE st.payload
        released == input.event = "release" /\ input.over = id /\ held.some
    IN  [st EXCEPT !.next_id = @ + 1,
                   !.headers = Append(@, [cell_kind |-> cell_kind, index |-> mapped_index,
                                          size |-> inner_size, id |-> id,
                                          hoverable |-> hoverable]),
                   !.payload = IF released THEN NoPayload ELSE held,
                   !.actions = IF released /\ held.v.cell_kind = cell_kind
                                           /\ held.v.index # mapped_index
                               THEN Append(@, Reorder(cell_kind, held.v.index, mapped_index))
                               ELSE @]

\* the pointer can be over a cell whose clip rect has an area
Hoverable(along, across) == along.max - along.min > 0 /\ across.max - across.min > 0

\* cell_clip_rect along the axis: the cell intersected with the viewport,
\* its near edge moved behind the header for grid index 1.  parent_clip_rect
\* covers the viewport, so intersecting with it changes nothing
ClipAlong(a, grid_index, cell_min, outer_size_) ==
    LET lo == IF grid_index = 1 THEN Along(outer_cell_size, a.kind) + 1 ELSE Max(cell_min, 0)
        hi == Min(cell_min + outer_size_, a.viewport)
    IN  [min |-> lo, max |-> hi]

\* cell_clip_rect across the axis: a header cell is one default cell deep
ClipAcross(a) ==
    [min |-> 0,
     max |-> Min(Along(outer_cell_size, IF a.kind = "column" THEN "row" ELSE "column"),
                 a.viewport_across)]

\* skip = cell_clip_rect_size.x < 0.0 || cell_clip_rect_size.y < 0.0
Skip(along, across) == along.max - along.min < 0 \/ across.max - across.min < 0

\* the corner's clip rect along an axis: one default cell, cut by the viewport
CornerClip(a) == [min |-> 0, max |-> Min(Along(outer_cell_size, a.kind), a.viewport)]

RECURSIVE HeaderWalk(_, _, _, _, _)
HeaderWalk(a, input, grid_index, accumulated, st) ==
    IF grid_index > a.visible_count \/ grid_index + a.origin > a.count THEN st
    ELSE IF grid_index = 0
    THEN HeaderWalk(a, input, 1, accumulated + Along(outer_cell_size, a.kind) + 1,
                    IF a.kind = "row" \/ Skip(CornerClip(a), ClipAcross(a)) THEN st
                    ELSE CornerCell(st, Hoverable(CornerClip(a), ClipAcross(a))))
    ELSE LET visible_index == a.origin + (grid_index - 1)
             mapped_index == map_index(a.count, a.ordering, visible_index)
         IN  IF IsFiltered(a.filter, mapped_index)
             THEN HeaderWalk(a, input, grid_index + 1, accumulated, st)
             ELSE LET inner_size == IF Has(a.sizes, mapped_index) THEN At(a.sizes, mapped_index)
                                    ELSE Along(inner_cell_size, a.kind)
                      outer_size_ == inner_size + Along(outer_inner_difference, a.kind)
                      along == ClipAlong(a, grid_index, a.start + accumulated, outer_size_)
                      next == accumulated + outer_size_ + 1
                  IN  IF Skip(along, ClipAcross(a))
                      THEN HeaderWalk(a, input, grid_index + 1, next, st)
                      ELSE HeaderWalk(a, input, grid_index + 1, next,
                                      HeaderCell(a,
                                                 ResizeHandle(a, st, input, mapped_index,
                                                              grid_index, inner_size, outer_size_,
                                                              a.start + accumulated + outer_size_),
                                                 input, mapped_index, inner_size,
                                                 Hoverable(along, ClipAcross(a))))

\* the headers of an axis are reached only if the other axis gets past its
\* own break at grid index 0
HeaderPass(a, reached, input, st) ==
    IF reached THEN HeaderWalk(a, input, 0, 0, st) ELSE st

(***************************************************************************)
(* show and show_inner, src/src/lib.rs:92-996.                             *)
(***************************************************************************)
\* is_empty looking at the row count only
is_empty_RowsOnly(dimensions) == dimensions.row_count = 0

\* TableDimensions::is_empty
is_empty(dimensions) == dimensions.row_count = 0 \/ dimensions.column_count = 0

CountOf(dimensions, axis) ==
    IF axis = "column" THEN dimensions.column_count ELSE dimensions.row_count

\* mutant: the origin is the data index the windower found, not the position
AxisOf_IndexOrigin(axis, count, sizes, order, filter, parameters, scroll, viewport) ==
    LET sizing == Along(outer_inner_difference, axis) + 1
        first == range_and_index_for_offset(Along(scroll, axis), sizes, order, filter, sizing)
        last == range_and_index_for_offset(Along(scroll, axis) + Along(viewport, axis),
                                           sizes, order, filter, sizing)
        across == IF axis = "column" THEN "row" ELSE "column"
    IN  [ok |-> first.ok /\ last.ok,
         kind |-> axis, count |-> count, sizes |-> sizes, ordering |-> order,
         filter |-> filter, parameters |-> parameters,
         origin |-> first.index,
         visible_count |-> (last.visible_index - first.visible_index) + 1 + last.filtered,
         start |-> first.min - Along(scroll, axis),
         viewport |-> Along(viewport, axis),
         viewport_across |-> Along(viewport, across)]

\* the two windower calls of an axis and what the header pass reads of
\* them; viewport_rect is scroll .. scroll + viewport
AxisOf(axis, count, sizes, order, filter, parameters, scroll, viewport) ==
    LET sizing == Along(outer_inner_difference, axis) + 1
        first == range_and_index_for_offset(Along(scroll, axis), sizes, order, filter, sizing)
        last == range_and_index_for_offset(Along(scroll, axis) + Along(viewport, axis),
                                           sizes, order, filter, sizing)
        across == IF axis = "column" THEN "row" ELSE "column"
    IN  [ok |-> first.ok /\ last.ok,
         kind |-> axis, count |-> count, sizes |-> sizes, ordering |-> order,
         filter |-> filter, parameters |-> parameters,
         origin |-> first.visible_index,
         visible_count |-> (last.visible_index - first.visible_index) + 1 + last.filtered,
         start |-> first.min - Along(scroll, axis),
         viewport |-> Along(viewport, axis),
         viewport_across |-> Along(viewport, across)]

(***************************************************************************)
(* The value pass of show_inner, src/src/lib.rs:832-959.                   *)
(***************************************************************************)
\* Rect::intersect along one axis
Intersect(r, q) == [min |-> Max(r.min, q.min), max |-> Min(r.max, q.max)]

\* cells_clip_rect along an axis: from behind the header to the viewport's far edge
CellsClip(a) == [min |-> Along(outer_cell_size, a.kind) + 1, max |-> a.viewport]

\* what the value pass carries from cell to cell: the actions, the cells
\* allocated in the scoped ui (render_cell is called for each), their count
ValueStart(actions) == [actions |-> actions, next_id |-> 0, cells |-> <<>>, panicked |-> FALSE]

\* mutant: a click needs the button to have gone down on the same cell
ValueCell_Clicked(vst, input, mapped_row_index, mapped_column_index, inner_row_height, inner_column_width, hoverable) ==
    LET id == [kind |-> "cell", key |-> vst.next_id]
        cell_index == [row |-> mapped_row_index, column |-> mapped_column_index]
    IN  [vst EXCEPT !.next_id = @ + 1,
                    !.cells = Append(@, [cell_index |-> cell_index,
                                         width |-> inner_column_width,
                                         height |-> inner_row_height,
                                         id |-> id, hoverable |-> hoverable]),
                    !.actions = IF input.event = "release" /\ input.over = id
                                   /\ input.dragged = id
                                THEN Append(@, [kind |-> "CellClicked",
                                                cell_index |-> cell_index])
                                ELSE @]

\* one value cell, src/src/lib.rs:923-955
ValueCell(vst, input, mapped_row_index, mapped_column_index, inner_row_height, inner_column_width, hoverable) ==
    LET id == [kind |-> "cell", key |-> vst.next_id]
        cell_index == [row |-> mapped_row_index, column |-> mapped_column_index]
    IN  [vst EXCEPT !.next_id = @ + 1,
                    !.cells = Append(@, [cell_index |-> cell_index,
                                         width |-> inner_column_width,
                                         height |-> inner_row_height,
                                         id |-> id, hoverable |-> hoverable]),
                    !.actions = IF input.event = "release" /\ input.over = id
                                THEN Append(@, [kind |-> "CellClicked", cell_index |-> cell_index])
                                ELSE @]

\* the cells of one row; the width is read at the visible column index
RECURSIVE ValueColumns(_, _, _, _, _, _, _, _)
ValueColumns(c, input, grid_column_index, accumulated, mapped_row_index, inner_row_height, row_clip, vst) ==
    IF grid_column_index > c.visible_count \/ grid_column_index + c.origin > c.count THEN vst
    ELSE LET visible_column_index == c.origin + (grid_column_index - 1)
             mapped_column_index == map_index(c.count, c.ordering, visible_column_index)
         IN  IF IsFiltered(c.filter, mapped_column_index)
             THEN ValueColumns(c, input, grid_column_index + 1, accumulated, mapped_row_index,
                               inner_row_height, row_clip, vst)
             ELSE IF ~Has(c.sizes, visible_column_index) THEN [vst EXCEPT !.panicked = TRUE]
             ELSE LET outer_column_width == At(c.sizes, visible_column_index)
                                              + outer_inner_difference.x
                      x == c.start + accumulated
                      clip == Intersect([min |-> x, max |-> x + outer_column_width], CellsClip(c))
                      next == accumulated + outer_column_width + 1
                  IN  IF Skip(clip, row_clip)
                      THEN ValueColumns(c, input, grid_column_index + 1, next, mapped_row_index,
                                        inner_row_height, row_clip, vst)
                      ELSE ValueColumns(c, input, grid_column_index + 1, next, mapped_row_index,
                                        inner_row_height, row_clip,
                                        ValueCell(vst, input, mapped_row_index,
                                                  mapped_column_index, inner_row_height,
                                                  At(c.sizes, visible_column_index),
                                                  Hoverable(clip, row_clip)))

RECURSIVE ValueRows(_, _, _, _, _, _)
ValueRows(r, c, input, grid_row_index, accumulated, vst) ==
    IF vst.panicked \/ grid_row_index > r.visible_count \/ grid_row_index + r.origin > r.count
    THEN vst
    ELSE LET visible_row_index == r.origin + (grid_row_index - 1)
             mapped_row_index == map_index(r.count, r.ordering, visible_row_index)
         IN  IF IsFiltered(r.filter, mapped_row_index)
             THEN ValueRows(r, c, input, grid_row_index + 1, accumulated, vst)
             ELSE IF ~Has(r.sizes, mapped_row_index) THEN [vst EXCEPT !.panicked = TRUE]
             ELSE LET outer_row_height == At(r.sizes, mapped_row_index) + outer_inner_difference.y
                      y == r.start + accumulated
                  IN  ValueRows(r, c, input, grid_row_index + 1,
                                accumulated + outer_row_height + 1,
                                ValueColumns(c, input, 1, outer_cell_size.x + 1, mapped_row_index,
                                             At(r.sizes, mapped_row_index),
                                             Intersect([min |-> y, max |-> y + outer_row_height],
                                                       CellsClip(r)),
                                             vst))

\* the value pass: rows from grid index 1, behind the header row
ValuePass(r, c, input, actions) ==
    ValueRows(r, c, input, 1, outer_cell_size.y + 1, ValueStart(actions))

(***************************************************************************)
(* total_content_size, src/src/lib.rs:294-317.                             *)
(***************************************************************************)
RECURSIVE SumSeq(_)
SumSeq(v) == IF v = <<>> THEN 0 ELSE Head(v) + SumSeq(Tail(v))

\* the extent taken off for one filter entry: the entry is mapped as if it
\* were a visible position, and counts if the store has a slot for it
FilteredExtent(sizes, count, order, sizing, entry) ==
    LET mapped_index == map_index(count, order, entry)
    IN  IF Has(sizes, mapped_index) THEN At(sizes, mapped_index) + sizing ELSE 0

\* the extent taken off for a filter: the sum over its entries
FilteredContent(sizes, count, order, sizing, filter) ==
    IF filter.some
    THEN SumSeq([i \in 1..Len(filter.v) |->
                   FilteredExtent(sizes, count, order, sizing, filter.v[i])])
    ELSE 0

\* total_content_size; the row entries are mapped with the column count and
\* the column ordering, as at src/src/lib.rs:309
ContentSize(columns, rows, dimensions, cfg) ==
    [x |-> (SumSeq(columns) + ((outer_inner_difference.x + 1) * dimensions.column_count)
              + outer_cell_size.x)
           - FilteredContent(columns, dimensions.column_count, cfg.column_ordering,
                             outer_inner_difference.x + 1, cfg.columns_to_filter),
     y |-> (SumSeq(rows) + ((outer_inner_difference.y + 1) * dimensions.row_count)
              + outer_cell_size.y)
           - FilteredContent(rows, dimensions.column_count, cfg.column_ordering,
                             outer_inner_difference.y + 1, cfg.rows_to_filter)]

(***************************************************************************)
(* The end of a frame.                                                     *)
(***************************************************************************)
\* what show leaves and gives back when it lays nothing out: the states as
\* they were stored, and no action
NotLaidOut(column_widths_, row_heights_, temp, payload, calls_, panics) ==
    [panicked |-> panics, column_widths |-> column_widths_, row_heights |-> row_heights_,
     drag_state |-> temp.drag_state, cell_origin |-> temp.cell_origin,
     ensured |-> [column |-> column_widths_, row |-> row_heights_],
     commit |-> NoAction, staged |-> NoAction, repaint |-> FALSE, actions |-> <<>>,
     payload |-> payload,
     content |-> [x |-> 0, y |-> 0], handles |-> {}, grabbable |-> {},
     headers |-> <<>>, cells |-> <<>>, calls |-> calls_]

\* state.column_widths[index] = new_width and state.row_heights[index] = new_height
Commit(sizes, axis, drag_action) ==
    IF drag_action.some /\ drag_action.v.kind = (IF axis = "column" THEN "SetWidth" ELSE "SetHeight")
    THEN [sizes EXCEPT ![drag_action.v.index + 1] = drag_action.v.size]
    ELSE sizes

\* mutant: a repaint is requested in every frame that stages a size
Finish_AlwaysRepaint(stored, columns, rows, origin, content, headers, values) ==
    IF values.panicked
       \/ /\ headers.drag_action.some
          /\ ~Has(IF headers.drag_action.v.kind = "SetWidth" THEN columns ELSE rows,
                  headers.drag_action.v.index)
    THEN stored
    ELSE [panicked |-> FALSE,
          column_widths |-> Commit(columns, "column", headers.drag_action),
          row_heights |-> Commit(rows, "row", headers.drag_action),
          drag_state |-> IF headers.clear_drag_state THEN NoDrag ELSE headers.drag_state,
          cell_origin |-> origin,
          ensured |-> [column |-> columns, row |-> rows],
          commit |-> headers.drag_action, staged |-> headers.staged,
          repaint |-> headers.staged.some,
          actions |-> values.actions, payload |-> headers.payload,
          content |-> content,
          handles |-> headers.handles, grabbable |-> headers.grabbable,
          headers |-> headers.headers, cells |-> values.cells,
          calls |-> <<"prepare", "get_dimensions">>]

\* the end of show_inner, src/src/lib.rs:973-996: the drag state is cleared
\* if a handle reported the stop, the drag action is committed, and both
\* states are stored
Finish(stored, columns, rows, origin, content, headers, values) ==
    IF values.panicked
       \/ /\ headers.drag_action.some
          /\ ~Has(IF headers.drag_action.v.kind = "SetWidth" THEN columns ELSE rows,
                  headers.drag_action.v.index)
    THEN stored
    ELSE [panicked |-> FALSE,
          column_widths |-> Commit(columns, "column", headers.drag_action),
          row_heights |-> Commit(rows, "row", headers.drag_action),
          drag_state |-> IF headers.clear_drag_state THEN NoDrag ELSE headers.drag_state,
          cell_origin |-> origin,
          ensured |-> [column |-> columns, row |-> rows],
          commit |-> headers.drag_action, staged |-> headers.staged,
          repaint |-> headers.drag_action.some,
          actions |-> values.actions, payload |-> headers.payload,
          content |-> content,
          handles |-> headers.handles, grabbable |-> headers.grabbable,
          headers |-> headers.headers, cells |-> values.cells,
          calls |-> <<"prepare", "get_dimensions">>]

\* the value pass follows the header pass and takes up its actions
Values(stored, columns, rows, origin, content, input, column_axis, row_axis, headers) ==
    Finish(stored, columns, rows, origin, content, headers,
           ValuePass(row_axis, column_axis, input, headers.actions))

\* the header pass of both axes, src/src/lib.rs:423-830
Headers(stored, temp, dimensions, input, content, column_axis, row_axis) ==
    IF ~column_axis.ok \/ ~row_axis.ok THEN stored
    ELSE Values(stored, column_axis.sizes, row_axis.sizes,
                [row |-> row_axis.origin, column |-> column_axis.origin], content, input,
                column_axis, row_axis,
                HeaderPass(row_axis, column_axis.origin <= dimensions.column_count, input,
                           HeaderPass(column_axis, row_axis.origin <= dimensions.row_count,
                                      input, PassStart(temp.drag_state, input.payload))))

\* the windows of both axes, src/src/lib.rs:402-431
Windows(stored, temp, dimensions, cfg, view, input, columns, rows) ==
    IF columns.panicked \/ rows.panicked THEN stored
    ELSE Headers(stored, temp, dimensions, input,
                 ContentSize(columns.sizes, rows.sizes, dimensions, cfg),
                 AxisOf("column", dimensions.column_count, columns.sizes,
                        cfg.column_ordering, cfg.columns_to_filter,
                        cfg.column_parameters, view.scroll, view.viewport),
                 AxisOf("row", dimensions.row_count, rows.sizes,
                        cfg.row_ordering, cfg.rows_to_filter,
                        cfg.row_parameters, view.scroll, view.viewport))

\* show_inner: ensure capacity, then the windows, the headers, the values
\* and the commit
show_inner(column_widths_, row_heights_, temp, dimensions, cfg, view, input) ==
    Windows(NotLaidOut(column_widths_, row_heights_, temp, input.payload,
                       <<"prepare", "get_dimensions">>, TRUE),
            temp, dimensions, cfg, view, input,
            EnsureCapacity(column_widths_, dimensions.column_count,
                           inner_cell_size.x, cfg.column_parameters),
            EnsureCapacity(row_heights_, dimensions.row_count,
                           inner_cell_size.y, cfg.row_parameters))

\* data_source.finalize() once show_inner, or the empty result, is through
Finalized(r) == IF r.panicked THEN r ELSE [r EXCEPT !.calls = Append(@, "finalize")]

\* show without the finalize of an empty data source
show_EmptyNotFinalized(column_widths_, row_heights_, temp, dimensions, cfg, view, input) ==
    IF ~is_empty(dimensions)
    THEN Finalized(show_inner(column_widths_, row_heights_, temp, dimensions, cfg, view, input))
    ELSE NotLaidOut(column_widths_, row_heights_, temp, input.payload,
                    <<"prepare", "get_dimensions">>, FALSE)

\* show: prepare, the snapshot of the dimensions, show_inner unless the
\* snapshot is empty, finalize
show(column_widths_, row_heights_, temp, dimensions, cfg, view, input) ==
    Finalized(IF ~is_empty(dimensions)
              THEN show_inner(column_widths_, row_heights_, temp, dimensions, cfg, view, input)
              ELSE NotLaidOut(column_widths_, row_heights_, temp, input.payload,
                              <<"prepare", "get_dimensions">>, FALSE))

(***************************************************************************)
(* The caller and egui around show.  A table is built with AxisParameters  *)
(* for one axis (the focus axis), whose dimension count changes from frame *)
(* to frame; the other axis has one item and no parameters.  egui reports  *)
(* a drag as started on a handle it hit, one of a table laid out the frame *)
(* before, holds the dragged widget's id until the button is released, and *)
(* reports the stop to that id.                                            *)
(***************************************************************************)
\* the AxisParameters lists a caller supplies
ParameterLists ==
    { None,
      Some(<<Bounded>>),
      Some(<<DefaultParameters, Bounded>>),
      Some(<<Fixed, Bounded>>),
      Some([i \in 1..(MaxDim + 1) |-> Bounded]) }

\* the orderings the renderer reports for the focus axis
FocusOrderings == { <<1, 0>> }

\* the filters the renderer reports for the focus axis of a browsed table:
\* one index, and an index together with one no dimension count reaches
FocusFilters == { Some(<<0>>), Some(<<1>>), Some(<<0, MaxItems>>) }

\* DeferredTable::new(..).column_parameters(..).row_parameters(..) and what
\* the renderer reports; use says what the user does with the table, items
\* how many items the data source has at most on the focus axis
ConfigOf(use, focus, parameters, order, filter) ==
    [use |-> use, focus |-> focus,
     items |-> IF use = "browse" THEN MaxItems ELSE MaxDim,
     column_parameters |-> IF focus = "column" THEN parameters ELSE None,
     row_parameters |-> IF focus = "row" THEN parameters ELSE None,
     column_ordering |-> IF focus = "column" THEN order ELSE <<>>,
     row_ordering |-> IF focus = "row" THEN order ELSE <<>>,
     columns_to_filter |-> IF focus = "column" THEN filter ELSE None,
     rows_to_filter |-> IF focus = "row" THEN filter ELSE None]

\* a table whose resize handles are dragged either has AxisParameters or a
\* reordered focus axis
Configs ==
    { ConfigOf("resize", focus, parameters, <<>>, None) :
        focus \in {"column", "row"}, parameters \in ParameterLists }
    \cup { ConfigOf("resize", focus, None, order, None) :
             focus \in {"column", "row"}, order \in FocusOrderings }

\* a table whose headers are dragged onto each other is reordered or not
DragDropConfigs ==
    { ConfigOf("reorder", focus, None, order, None) :
        focus \in {"column", "row"}, order \in FocusOrderings \cup { <<>> } }

\* the orderings the renderer reports for the focus axis of a browsed table
BrowseOrderings == { <<>>, <<2, 0, 1>> }

\* a table that is scrolled and clicked is reordered or not, filtered or not
BrowseConfigs ==
    { ConfigOf("browse", focus, None, order, filter) :
        focus \in {"column", "row"}, order \in BrowseOrderings, filter \in FocusFilters }

\* a table whose layout is looked at has default sizes or sizes of its own,
\* and is reordered or not, filtered or not
LayoutConfigs ==
    { ConfigOf("layout", focus, parameters, order, filter) :
        focus \in {"column", "row"},
        parameters \in { None, Some(<<Fixed, Bounded>>) },
        order \in FocusOrderings \cup { <<>> },
        filter \in { None, Some(<<0>>) } }

\* data_source.get_dimensions() of a frame
DimensionsOf(cfg) ==
    { [row_count |-> IF cfg.focus = "row" THEN n ELSE 1,
       column_count |-> IF cfg.focus = "column" THEN n ELSE 1] :
        n \in 0..cfg.items }

\* the scroll offset and the size of the scroll area's viewport: a table
\* that is browsed is scrolled along its focus axis by whole default cells
ViewAt(focus, cells_) ==
    [scroll |-> [x |-> IF focus = "column" THEN cells_ * (outer_cell_size.x + 1) ELSE 0,
                 y |-> IF focus = "row" THEN cells_ * (outer_cell_size.y + 1) ELSE 0],
     viewport |-> [x |-> 400, y |-> 200]]

\* a table whose layout is looked at is scrolled to the start or to the last
\* pixel of its first default cell, the line between it and the next, in the
\* usual viewport or in one that ends inside the header along the focus axis
LayoutViews(focus) ==
    { [scroll |-> [x |-> IF focus = "column" THEN offset.x ELSE 0,
                   y |-> IF focus = "row" THEN offset.y ELSE 0],
       viewport |-> [x |-> IF focus = "column" THEN along.x ELSE ViewAt(focus, 0).viewport.x,
                     y |-> IF focus = "row" THEN along.y ELSE ViewAt(focus, 0).viewport.y]] :
        offset \in { [x |-> 0, y |-> 0], outer_cell_size },
        along \in { ViewAt(focus, 0).viewport, inner_cell_size } }

Views(cfg) ==
    CASE cfg.use = "browse" -> { ViewAt(cfg.focus, k) : k \in 0..MaxScroll }
      [] cfg.use = "layout" -> LayoutViews(cfg.focus)
      [] OTHER -> { ViewAt(cfg.focus, 0) }

\* ctx.pointer_latest_pos(): only the displacement current_pos - start_pos
\* enters a resize, so a drag starts at the origin of the coordinates and
\* the pointer then moves along the diagonal
PressPosition == [x |-> 0, y |-> 0]

PointerPositions == { Some([x |-> c, y |-> c]) : c \in {0 - Far, 0, Nudge, Far} }

\* show_inner reads the pointer only to start a drag and to follow one, so
\* the position is left out of the frames that do neither
PointerInputs(temp_drag_state, event) ==
    IF event = "press" THEN { Some(PressPosition) }
    ELSE IF temp_drag_state.some THEN PointerPositions
    ELSE { NoPos }

\* the ids of the resize handles of the focus axis, the ones the user grabs
ResizeIds(focus) ==
    { [kind |-> IF focus = "column" THEN "resize_column" ELSE "resize_row", key |-> i] :
        i \in 0..MaxDim }

\* the auto ids of the header cells and of the value cells of a table
HeaderIds == { [kind |-> "header", key |-> i] : i \in 0..(MaxDim + 1) }
CellIds == { [kind |-> "cell", key |-> i] : i \in 0..(MaxItems - 1) }

\* the widgets the user points at
Widgets(cfg) ==
    CASE cfg.use = "resize" -> ResizeIds(cfg.focus)
      [] cfg.use = "reorder" -> HeaderIds
      [] OTHER -> CellIds

\* the ids of the cells of a pass the pointer can be over
HoverableIds(laid) == { laid[i].id : i \in { j \in 1..Len(laid) : laid[j].hoverable } }

\* the widgets of a frame the button can go down on, and the ones it can
\* come up over
Pressable(cfg, r) ==
    CASE cfg.use = "resize" -> r.grabbable
      [] cfg.use = "reorder" -> HoverableIds(r.headers)
      [] OTHER -> HoverableIds(r.cells)

Droppable(cfg, r) ==
    CASE cfg.use = "resize" -> {}
      [] cfg.use = "reorder" -> HoverableIds(r.headers)
      [] OTHER -> HoverableIds(r.cells)

\* what the pointer button does in a frame
Events == {"none", "press", "release"}

\* the slots resized by the user: a frame's commit enters its slot afresh,
\* and every other slot notes whether the axis count has gone down since
Resized(slots, previous, dimensions, commit) ==
    LET axis == IF commit.v.kind = "SetWidth" THEN "column" ELSE "row"
        kept == { s \in slots : ~(commit.some /\ s.axis = axis /\ s.index = commit.v.index) }
        noted == { [s EXCEPT !.shrunk = @ \/ CountOf(dimensions, s.axis) < CountOf(previous, s.axis)] :
                     s \in kept }
    IN  IF commit.some
        THEN noted \cup { [axis |-> axis, index |-> commit.v.index, shrunk |-> FALSE] }
        ELSE noted

\* a table that has not been shown yet
TableStart(configs) ==
    /\ ReorderIdle
    /\ WindowIdle
    /\ panicked = FALSE
    /\ cell_origin = OriginZero
    /\ drag_state = NoDrag
    /\ column_widths = <<>>
    /\ row_heights = <<>>
    /\ config \in configs
    /\ egui_drag = NoWidget
    /\ dnd_payload = NoPayload
    /\ drags = 0
    /\ frame = NoFrame
    /\ user_sized = {}

\* what a frame leaves in egui and the table's two states; egui drops the
\* payload at the end of the frame in which the button comes up
Frame(dimensions, view, event, target, r) ==
    /\ event = "press" => target \in Pressable(config, r)
    /\ event = "release" => target \in Droppable(config, r) \cup {NoWidget}
    /\ panicked' = r.panicked
    /\ column_widths' = r.column_widths
    /\ row_heights' = r.row_heights
    /\ drag_state' = r.drag_state
    /\ cell_origin' = r.cell_origin
    /\ egui_drag' = CASE r.panicked -> egui_drag
                      [] event = "press" -> target
                      [] event = "release" -> NoWidget
                      [] OTHER -> egui_drag
    /\ dnd_payload' = CASE r.panicked -> dnd_payload
                        [] event = "release" -> NoPayload
                        [] OTHER -> r.payload
    /\ drags' = IF event = "press" /\ ~r.panicked THEN drags + 1 ELSE drags
    /\ frame' = [shown |-> TRUE, panicked |-> r.panicked, dimensions |-> dimensions,
                 view |-> view, over |-> IF event = "release" THEN target ELSE NoWidget,
                 pressed |-> IF event = "release" /\ target # NoWidget THEN egui_drag
                             ELSE NoWidget,
                 ensured |-> r.ensured, commit |-> r.commit, staged |-> r.staged,
                 repaint |-> r.repaint,
                 actions |-> r.actions, content |-> r.content,
                 pressable |-> Pressable(config, r),
                 headers |-> r.headers, cells |-> r.cells, calls |-> r.calls]
    /\ user_sized' = Resized(user_sized, frame.dimensions, dimensions, r.commit)

\* show with the input egui has for the frame
Shown(dimensions, view, event, target, input) ==
    Frame(dimensions, view, event, target,
          show(column_widths, row_heights,
               [cell_origin |-> cell_origin, drag_state |-> drag_state],
               dimensions, config, view, input))

\* one frame: the application calls show
Show ==
    /\ ~panicked
    /\ \E dimensions \in DimensionsOf(config), view \in Views(config), event \in Events,
          target \in Widgets(config) \cup {NoWidget} :
      \E pointer_pos \in PointerInputs(drag_state, event) :
        /\ event = "none" => target = NoWidget
        /\ event = "press" =>
              /\ target # NoWidget
              /\ egui_drag = NoWidget /\ drags < MaxDrags /\ pointer_pos.some
              /\ frame.shown /\ ~is_empty(frame.dimensions)
              /\ target \in frame.pressable
        /\ event = "release" => egui_drag # NoWidget
        /\ Shown(dimensions, view, event, target,
                 [pointer_pos |-> pointer_pos,
                  drag_started |-> IF event = "press" THEN target ELSE NoWidget,
                  drag_stopped |-> IF event = "release" THEN egui_drag ELSE NoWidget,
                  event |-> event,
                  over |-> IF event = "release" THEN target ELSE NoWidget,
                  dragged |-> egui_drag,
                  payload |-> dnd_payload])
    /\ UNCHANGED <<ordering, initial, from, to, calls, before, mapped, windowVars, config>>

Next == Show

InitTable == TableStart(Configs)

InitDragDrop == TableStart(DragDropConfigs)

InitBrowse == TableStart(BrowseConfigs)

\* a table left with a held drag: the handle of item 0 of the focus axis was
\* pressed in a table of MaxDim items, and the button came up in a frame
\* of an empty data source, which lays out no handle to report the stop;
\* drags counts the drags started from here on, and the user goes on to
\* drag resize handles or to scroll and click
InitHeld ==
    /\ ReorderIdle
    /\ WindowIdle
    /\ panicked = FALSE
    /\ cell_origin = OriginZero
    /\ config \in { [ConfigOf(use, focus, None, <<>>, None) EXCEPT !.items = MaxDim] :
                       use \in {"resize", "browse"}, focus \in {"column", "row"} }
    /\ column_widths = [i \in 1..(IF config.focus = "column" THEN MaxDim ELSE 1) |->
                          inner_cell_size.x]
    /\ row_heights = [i \in 1..(IF config.focus = "row" THEN MaxDim ELSE 1) |->
                        inner_cell_size.y]
    /\ drag_state = SomeDrag(0, PressPosition, CellKindOf(config.focus),
                             Along(outer_cell_size, config.focus))
    /\ egui_drag = NoWidget
    /\ dnd_payload = NoPayload
    /\ drags = 0
    /\ frame = [NoFrame EXCEPT
                  !.shown = TRUE,
                  !.dimensions = [row_count |-> IF config.focus = "row" THEN 0 ELSE 1,
                                  column_count |-> IF config.focus = "column" THEN 0 ELSE 1],
                  !.view = ViewAt(config.focus, 0),
                  !.ensured = [column |-> column_widths, row |-> row_heights],
                  !.calls = <<"prepare", "get_dimensions", "finalize">>]
    /\ user_sized = {}

\* the table with its resize handles dragged
Spec == InitTable /\ [][Next]_vars

\* the table with a held drag and its resize handles dragged
SpecHeld == InitHeld /\ [][Next]_vars

\* the table with its headers dragged onto each other
SpecDragDrop == InitDragDrop /\ [][Next]_vars

\* the table scrolled and clicked
SpecBrowse == InitBrowse /\ [][Next]_vars

InitLayout == TableStart(LayoutConfigs)

SpecLayout == InitLayout /\ [][Next]_vars

(***************************************************************************)
(* Claims about apply_reordering and map_index, checked under SpecReorder. *)
(***************************************************************************)
\* the claims' precondition: the ordering is absent, empty or a permutation of 0..len
ValidOrdering(o) == IsPermutation(o.v)

\* the identity extension of v to length n, written without the loop of the code
Extended(v, n) == [i \in 1..Max(Len(v), n) |-> IF i <= Len(v) THEN v[i] ELSE i - 1]

\* v without the value x
Without(v, x) == SelectSeq(v, LAMBDA y : y # x)

\* C1 as stated: for any from and to and any initial ordering that is absent, empty or
\* a permutation, the ordering after the call is a permutation of 0..N with
\* N = max(len(initial), from + 1, to + 1).
C1_PermutationAnyFromTo ==
    (calls >= 1 /\ ValidOrdering(initial)) =>
        /\ ~panicked
        /\ ordering.some
        /\ IsPermutation(ordering.v)
        /\ Len(ordering.v) = Max(Len(initial.v), Max(from + 1, to + 1))

\* C1 amended: for from # to the ordering after the call is a permutation of 0..N with
\* N = max(len(initial), from + 1, to + 1); for from = to it stays what it was, a
\* permutation of 0..len(initial) (or absent).
C1_PermutationPreserved ==
    (calls >= 1 /\ ValidOrdering(initial)) =>
        /\ ~panicked
        /\ IsPermutation(ordering.v)
        /\ from # to =>
            /\ ordering.some
            /\ Len(ordering.v) = Max(Len(initial.v), Max(from + 1, to + 1))
        /\ from = to => Len(ordering.v) = Len(initial.v)

C1_Witness ==
    /\ calls >= 1
    /\ from # to
    /\ initial.some
    /\ Len(initial.v) >= 2
    /\ Len(ordering.v) > Len(initial.v)
    /\ ordering.v # Extended(initial.v, Len(ordering.v))

\* C2: apply_reordering(from, to) with from # to on an absent, empty or permuted
\* ordering: the ordering is extended with identity values to length max(from, to) + 1,
\* then `from` ends up at the index `to` held in the extended ordering, and every other
\* value keeps its relative order; the cases of the test suite give their expected
\* results.
C2_MoveSemantics ==
    /\ (calls >= 1 /\ from # to /\ ValidOrdering(before)) =>
          LET ext == Extended(before.v, Max(from, to) + 1)
          IN  /\ ~panicked
              /\ ordering.some
              /\ Position(ordering.v, from) = Position(ext, to)
              /\ Without(ordering.v, from) = Without(ext, from)
    /\ calls = 1 =>
          \A c \in TestCases :
              (initial = Some(c.ordering) /\ from = c.from /\ to = c.to)
                  => ordering = Some(c.expected)

\* a move to a later index on an ordering of three or more entries
C2_Witness ==
    /\ calls >= 1
    /\ from # to
    /\ ValidOrdering(before)
    /\ Len(before.v) >= 3
    /\ Position(before.v, from) >= 0
    /\ Position(before.v, to) > Position(before.v, from)
    /\ Position(ordering.v, from) > Position(before.v, from)

\* C3: apply_reordering with from = to is a no-op for any ordering: the ordering is
\* exactly what it was (absent stays absent, no identity growth), however often it runs.
C3_SameIndexNoOp ==
    from = to => (ordering = initial /\ ordering = before /\ ~panicked)

C3_Witness ==
    /\ from = to
    /\ calls >= 2
    /\ from >= Len(initial.v)
    /\ ~initial.some
    /\ ordering = None

\* C4: map_index(count, ordering, p) is ordering[p] when p is inside the ordering and
\* ordering[p] < count, and p itself otherwise (missing or stale entry).
C4_MapIndex ==
    mapped.called =>
        LET o == mapped.ordering
            p == mapped.position
        IN  /\ (p < Len(o) /\ o[p + 1] < mapped.count) => mapped.result = o[p + 1]
            /\ ~(p < Len(o) /\ o[p + 1] < mapped.count) => mapped.result = p

\* a stale entry (>= count) fell back to the visible position
C4_Witness ==
    /\ mapped.called
    /\ mapped.position < Len(mapped.ordering)
    /\ mapped.ordering[mapped.position + 1] >= mapped.count
    /\ mapped.ordering[mapped.position + 1] # mapped.position
    /\ mapped.result = mapped.position

(***************************************************************************)
(* Claims about the windower, checked under SpecWindow.                    *)
(***************************************************************************)
\* the per-cell extent of the uniform axis of the harness: inner size plus sizing
Extent == w_in.values[1] + w_in.sizing

IdentityMap(map) == \A i \in 1..Len(map) : map[i] = i - 1

\* the axis of the harness is uniform, with no ordering and no filter
UniformPlain ==
    /\ Len(w_in.values) >= 1
    /\ IsUniform(w_in.values)
    /\ w_in.map = <<>>
    /\ ~w_in.filter.some

\* the axis of the harness is uniform, identity ordered, with exactly position k filtered
UniformOneFiltered(k) ==
    /\ Len(w_in.values) >= 1
    /\ IsUniform(w_in.values)
    /\ IdentityMap(w_in.map)
    /\ w_in.filter = Some(<<k>>)
    /\ k < Len(w_in.values)

\* C8: on a uniform axis of N cells of extent S, with no ordering and no filter, every
\* offset o with 0 <= o < N*S gives position and data index floor(o/S) and the pixel
\* range [floor(o/S)*S, (floor(o/S)+1)*S); for the 10 x 5 grid of 50 x 20 cells at
\* body offset (120, 45) the cell origin is row 2, column 2.
C8_UniformWindow ==
    (w_first.called /\ UniformPlain /\ w_in.offset < Len(w_in.values) * Extent) =>
        LET q == w_in.offset \div Extent
            r == w_first.result
        IN  /\ r.ok
            /\ r.visible_index = q
            /\ r.index = q
            /\ r.min = q * Extent
            /\ r.max = (q + 1) * Extent
            /\ r.filtered = 0
            /\ cell_origin[w_kind] = q
            /\ (w_kind = "column" /\ w_in.values = UniformValues(5, 49)
                  /\ w_in.sizing = 1 /\ w_in.offset = 120) => cell_origin.column = 2
            /\ (w_kind = "row" /\ w_in.values = UniformValues(10, 19)
                  /\ w_in.sizing = 1 /\ w_in.offset = 45) => cell_origin.row = 2

\* the row axis of the example grid, scrolled to 45: the origin row is 2
C8_Witness ==
    /\ w_first.called
    /\ UniformPlain
    /\ w_kind = "row"
    /\ w_in.values = UniformValues(10, 19)
    /\ w_in.sizing = 1
    /\ w_in.offset = 45
    /\ cell_origin.row = 2
    /\ w_first.result.min = 40
    /\ w_first.result.max = 60

\* C9: with exactly one filtered position k on an otherwise uniform, identity ordered
\* axis, position k contributes zero pixels and does not end the walk: offsets before
\* k's place resolve as without the filter, an offset that would have landed on k
\* resolves to data index k+1 with filtered_count = 1, and every later position lies
\* one extent earlier than without the filter.
C9_OneFiltered ==
    \A k \in 0..(Len(w_in.values) - 1) :
        (w_first.called /\ UniformOneFiltered(k)) =>
            LET q == w_in.offset \div Extent
                r == w_first.result
                n == Len(w_in.values)
            IN  /\ r.ok
                /\ q < k =>
                      /\ r.visible_index = q /\ r.index = q /\ r.filtered = 0
                      /\ r.min = q * Extent /\ r.max = (q + 1) * Extent
                /\ q = k =>
                      /\ r.visible_index = k + 1 /\ r.index = k + 1 /\ r.filtered = 1
                      /\ r.min = k * Extent
                /\ (q >= k /\ q + 1 < n) =>
                      /\ r.visible_index = q + 1 /\ r.index = q + 1 /\ r.filtered = 1
                      /\ r.min = q * Extent /\ r.max = (q + 1) * Extent

\* an offset inside the place of the filtered position k, with a position k+1 to land on
C9_Witness ==
    \E k \in 1..(Len(w_in.values) - 2) :
        /\ w_first.called
        /\ UniformOneFiltered(k)
        /\ Len(w_in.map) = Len(w_in.values)
        /\ w_in.offset \div Extent = k
        /\ w_first.result.index = k + 1
        /\ w_first.result.filtered = 1
        /\ w_first.result.min = k * Extent
        /\ w_first.result.max = (k + 1) * Extent

(***************************************************************************)
(* Claims about the size store and the resize drag, checked under Spec.    *)
(***************************************************************************)
\* the size store of an axis, and the parameter list the caller gave for it
StoreOf(axis) == IF axis = "column" THEN column_widths ELSE row_heights
ParameterListOf(axis) == IF axis = "column" THEN config.column_parameters ELSE config.row_parameters

\* the step is a frame that ran the ensure-capacity step to its end
Ensured == frame'.shown /\ ~panicked' /\ ~is_empty(frame'.dimensions)

\* C5: the size store of an axis is never truncated: after the
\* ensure-capacity step of a frame its length is the larger of its previous
\* length and the frame's dimension count, a count no larger than the
\* previous length leaves the store as it was, and over any frame the length
\* of the store does not go down.
C5_NeverTruncated ==
    [][ /\ Ensured =>
            /\ Len(frame'.ensured.column)
                 = Max(Len(column_widths), frame'.dimensions.column_count)
            /\ Len(frame'.ensured.row)
                 = Max(Len(row_heights), frame'.dimensions.row_count)
            /\ frame'.dimensions.column_count <= Len(column_widths)
                 => frame'.ensured.column = column_widths
            /\ frame'.dimensions.row_count <= Len(row_heights)
                 => frame'.ensured.row = row_heights
        /\ Len(column_widths') >= Len(column_widths)
        /\ Len(row_heights') >= Len(row_heights) ]_vars

\* a table of two items on its focus axis has been shown with one: the
\* store keeps both sizes
C5_Witness ==
    /\ frame.shown /\ ~panicked /\ ~is_empty(frame.dimensions)
    /\ CountOf(frame.dimensions, config.focus) = 1
    /\ Len(StoreOf(config.focus)) = 2
    /\ Len(IF config.focus = "column" THEN frame.ensured.column ELSE frame.ensured.row) = 2

\* C6: when a frame's dimension count exceeds the length of the size store,
\* the ensure-capacity step leaves every slot the store already had
\* unchanged, whatever AxisParameters the caller supplies.
C6_GrowthKeepsExisting ==
    [][ Ensured =>
          /\ Len(column_widths) < frame'.dimensions.column_count
               => \A i \in 1..Len(column_widths) : frame'.ensured.column[i] = column_widths[i]
          /\ Len(row_heights) < frame'.dimensions.row_count
               => \A i \in 1..Len(row_heights) : frame'.ensured.row[i] = row_heights[i] ]_vars

\* C7: a size committed by a resize for a data index survives the frames in
\* which the dimension count has gone down and then goes up again, to the
\* old count or beyond: the slot changes only when it is resized again.
C7_ResizedSurvives ==
    [][ \A s \in user_sized :
          s.shrunk =>
            \/ At(StoreOf(s.axis), s.index) = At(StoreOf(s.axis)', s.index)
            \/ /\ frame'.commit.some
               /\ frame'.commit.v.kind = (IF s.axis = "column" THEN "SetWidth" ELSE "SetHeight")
               /\ frame'.commit.v.index = s.index ]_vars

\* C10: every size a resize drag commits lies between the larger of the
\* minimum_dimension and the minimum grabbable size (2 * grab radius + 2),
\* and the maximum_dimension, of the AxisParameters of the resized index,
\* for rows and for columns.
C10_CommittedWithinRange ==
    frame.commit.some =>
        LET axis == IF frame.commit.v.kind = "SetWidth" THEN "column" ELSE "row"
            range == ParametersFor(ParameterListOf(axis), frame.commit.v.index).dimension_range
        IN  /\ frame.commit.v.size >= Max(range.min, (2 * resize_grab_radius_side) + 2)
            /\ frame.commit.v.size <= range.max

\* the axis a drag state or a drag action is about
AxisOfKind(kind) == IF kind \in {"ColumnHeader", "SetWidth"} THEN "column" ELSE "row"

\* the AxisParameters the caller gave for a data index of an axis
ParametersAt(axis, index) == ParametersFor(ParameterListOf(axis), index)

\* C11: a resize drag on the handle of row or column data index i enters
\* Dragging only if no drag is held and the AxisParameters of i say
\* resizable; for an index whose parameters say not resizable, row or
\* column, no pointer events start a resize drag or commit a size to it.
C11_ResizableOnly ==
    [][ /\ (drag_state'.some /\ drag_state' # drag_state) =>
              /\ ~drag_state.some
              /\ ParametersAt(AxisOfKind(drag_state'.v.cell_kind), drag_state'.v.index).resizable
        /\ frame'.commit.some =>
              ParametersAt(AxisOfKind(frame'.commit.v.kind), frame'.commit.v.index).resizable
      ]_vars

\* the step is a frame in which the pointer button comes up: egui lets go
\* of the widget it held
Released == egui_drag # NoWidget /\ egui_drag' = NoWidget

\* C12: whenever a resize drag is held and the pointer button is released,
\* the drag slot is empty once that frame ends, whether or not a size was
\* committed and whatever the layout of that frame is: a held drag never
\* outlives the release.
C12_ReleaseClears ==
    [][ (drag_state.some /\ Released) => ~drag_state'.some ]_vars

\* the slots of the two size stores a frame's commit has written: where the
\* stores after the frame differ from the stores after its ensure-capacity step
Committed ==
    { [axis |-> "column", index |-> i - 1] :
        i \in { j \in 1..Len(column_widths') : column_widths'[j] # frame'.ensured.column[j] } }
    \cup { [axis |-> "row", index |-> i - 1] :
             i \in { j \in 1..Len(row_heights') : row_heights'[j] # frame'.ensured.row[j] } }

\* C13: at most one (axis, data index) pair is being resized: the drag slot
\* holds no or one DragState, a held drag is kept or cleared by a frame and
\* never replaced by a new one, and a frame commits at most one size slot,
\* the one of the drag held in that frame.
C13_OneResize ==
    [][ /\ drag_state.some => drag_state' \in {drag_state, NoDrag}
        /\ ~panicked' =>
              /\ Cardinality(Committed) <= 1
              /\ \A slot \in Committed :
                    /\ frame'.commit.some
                    /\ slot = [axis |-> AxisOfKind(frame'.commit.v.kind),
                               index |-> frame'.commit.v.index]
                    /\ \E held \in {drag_state, drag_state'} :
                          /\ held.some
                          /\ held.v.index = slot.index
                          /\ AxisOfKind(held.v.cell_kind) = slot.axis
      ]_vars

\* the button went down on the handle of another item while the drag of
\* item 0 was held: the frame kept the held drag and committed its slot
C13_Witness ==
    /\ drag_state.some
    /\ drag_state.v.index = 0
    /\ egui_drag # NoWidget
    /\ egui_drag # ResizeId(config.focus, 0, 1)
    /\ frame.commit.some
    /\ frame.commit.v.index = 0
    /\ StoreOf(config.focus)[1] # frame.ensured[config.focus][1]

\* how often a call is in the calls a frame made on the data source
TimesCalled(made, call) == Cardinality({ i \in 1..Len(made) : made[i] = call })

C16_EmptyShortCircuit ==
    [][ (frame'.dimensions.row_count = 0 \/ frame'.dimensions.column_count = 0) =>
          /\ ~panicked'
          /\ frame'.actions = <<>>
          /\ frame'.cells = <<>>
          /\ column_widths' = column_widths
          /\ row_heights' = row_heights
          /\ cell_origin' = cell_origin
          /\ drag_state' = drag_state
      ]_vars

\* a scrolled table with a resized slot and a held drag was shown with an
\* empty data source
C16_Witness ==
    /\ frame.shown
    /\ is_empty(frame.dimensions)
    /\ frame.view # ViewAt(config.focus, 0)
    /\ drag_state.some
    /\ cell_origin # OriginZero
    /\ StoreOf(config.focus)[1] # Along(inner_cell_size, config.focus)

(***************************************************************************)
(* Claims about the headers dragged onto each other, checked under         *)
(* SpecDragDrop.                                                           *)
(***************************************************************************)
\* the cells of a pass that have the widget id
CellsWithId(laid, id) == { laid[i] : i \in { j \in 1..Len(laid) : laid[j].id = id } }

\* the actions the claim expects of a frame that started with a payload and
\* saw the button come up over the widget: one reorder for a header of the
\* payload's kind and another data index, and nothing otherwise
ExpectedOfDrop(payload, headers, over) ==
    LET targets == { h \in CellsWithId(headers, over) :
                       /\ payload.some
                       /\ h.cell_kind = payload.v.cell_kind
                       /\ h.index # payload.v.index }
    IN  IF targets = {} THEN <<>>
        ELSE LET h == CHOOSE t \in targets : TRUE
             IN  << [kind |-> IF h.cell_kind = "ColumnHeader" THEN "ColumnReorder"
                              ELSE "RowReorder",
                     from |-> payload.v.index, to |-> h.index] >>

\* C14: on a header drop a reorder action is emitted exactly when the dragged
\* payload and the drop target are headers of the same kind and their mapped
\* data indices differ: ColumnReorder{from: source, to: target} for column
\* headers, RowReorder for row headers; a cross-kind drop or a drop onto the
\* same index emits nothing; the payload is the kind and mapped index of the
\* header being dragged, and the drop does not change the ordering.
C14_HeaderDrop ==
    [][ ~panicked' =>
          /\ frame'.actions = ExpectedOfDrop(dnd_payload, frame'.headers, frame'.over)
          /\ (dnd_payload'.some /\ dnd_payload' # dnd_payload) =>
                \E h \in CellsWithId(frame'.headers, egui_drag) :
                    dnd_payload'.v = [cell_kind |-> h.cell_kind, index |-> h.index]
          /\ config'.column_ordering = config.column_ordering
          /\ config'.row_ordering = config.row_ordering
      ]_vars

\* with the columns ordered <<1, 0>> the first column header, of data index
\* 1, was dropped on the second, of data index 0
C14_Witness ==
    /\ config.column_ordering = <<1, 0>>
    /\ frame.over = [kind |-> "header", key |-> 2]
    /\ frame.actions = << [kind |-> "ColumnReorder", from |-> 1, to |-> 0] >>
    /\ ~dnd_payload.some

(***************************************************************************)
(* Claims about the table scrolled and clicked, checked under SpecBrowse.  *)
(***************************************************************************)
\* the data index is an entry of the filter the renderer reports
InFilter(filter, index) == filter.some /\ \E i \in 1..Len(filter.v) : filter.v[i] = index

\* C17: for any ordering and any scroll offset, no row or column whose mapped
\* data index is in the frame's filter is laid out: no header cell is
\* allocated, render_cell is not called and no action is emitted for a data
\* index in rows_to_filter or columns_to_filter.
C17_FilteredNotLaidOut ==
    /\ \A i \in 1..Len(frame.headers) :
          /\ frame.headers[i].cell_kind = "ColumnHeader"
                => ~InFilter(config.columns_to_filter, frame.headers[i].index)
          /\ frame.headers[i].cell_kind = "RowHeader"
                => ~InFilter(config.rows_to_filter, frame.headers[i].index)
    /\ \A i \in 1..Len(frame.cells) :
          /\ ~InFilter(config.rows_to_filter, frame.cells[i].cell_index.row)
          /\ ~InFilter(config.columns_to_filter, frame.cells[i].cell_index.column)
    /\ \A i \in 1..Len(frame.actions) :
          frame.actions[i].kind = "CellClicked" =>
              /\ ~InFilter(config.rows_to_filter, frame.actions[i].cell_index.row)
              /\ ~InFilter(config.columns_to_filter, frame.actions[i].cell_index.column)

\* a table of three items ordered <<2, 0, 1>> with data index 0 filtered,
\* scrolled by one cell: the one item in view, of data index 1, has its
\* header and its cell laid out, and the cell is clicked
C17_Witness ==
    /\ frame.shown /\ ~panicked
    /\ CountOf(frame.dimensions, config.focus) = 3
    /\ (IF config.focus = "column" THEN config.column_ordering ELSE config.row_ordering)
          = <<2, 0, 1>>
    /\ (IF config.focus = "column" THEN config.columns_to_filter ELSE config.rows_to_filter)
          = Some(<<0>>)
    /\ frame.view = ViewAt(config.focus, 1)
    /\ Len(frame.cells) = 1
    /\ frame.cells[1].cell_index[config.focus] = 1
    /\ Len(frame.actions) = 1

\* the filter without its stale entries, the ones no smaller than the count
Unstale(filter, count) ==
    IF filter.some THEN Some(SelectSeq(filter.v, LAMBDA entry : entry < count)) ELSE None

\* the configuration of the table with the stale entries of both filters removed
WithoutStale(cfg, dimensions) ==
    [cfg EXCEPT !.columns_to_filter = Unstale(@, dimensions.column_count),
                !.rows_to_filter = Unstale(@, dimensions.row_count)]


\* the input of a frame of a table with no drag held, in which the button
\* came up over the widget, or did nothing
InputOver(over, dragged, payload) ==
    [pointer_pos |-> NoPos, drag_started |-> NoWidget,
     drag_stopped |-> IF over # NoWidget THEN dragged ELSE NoWidget,
     event |-> IF over # NoWidget THEN "release" ELSE "none",
     over |-> over, dragged |-> dragged, payload |-> payload]

\* what show gives for the frame just shown when the configuration is cfg
ShownWith(cfg) ==
    show(column_widths, row_heights, [cell_origin |-> cell_origin, drag_state |-> drag_state],
         frame'.dimensions, cfg, frame'.view, InputOver(frame'.over, egui_drag, dnd_payload))

\* the frame just shown gave what show gives for the configuration
SameFrame(cfg) ==
    /\ panicked' = ShownWith(cfg).panicked
    /\ frame'.content = ShownWith(cfg).content
    /\ cell_origin' = ShownWith(cfg).cell_origin
    /\ frame'.headers = ShownWith(cfg).headers
    /\ frame'.cells = ShownWith(cfg).cells
    /\ frame'.actions = ShownWith(cfg).actions

\* C18: a filter entry that is no smaller than the current dimension count is
\* treated as not filtered: the frame does not panic, and its content
\* extent, cell origin, header cells, rendered cells and actions are those of
\* a frame with the same filter without that entry.
C18_StaleFilterIgnored ==
    [][ (frame' # frame /\ ~drag_state.some) =>
            /\ ~panicked'
            /\ SameFrame(WithoutStale(config, frame'.dimensions)) ]_vars

\* the CellClicked actions of the last frame
Clicks == SelectSeq(frame.actions, LAMBDA action : action.kind = "CellClicked")

\* the value cells of the last frame the button came up over
CellsOver == { i \in 1..Len(frame.cells) : frame.cells[i].id = frame.over }

\* the ordering and the filter of the focus axis
FocusOrdering == IF config.focus = "column" THEN config.column_ordering ELSE config.row_ordering

FocusFilter == IF config.focus = "column" THEN config.columns_to_filter ELSE config.rows_to_filter

\* the visible positions of the focus axis from the cell origin on whose
\* mapped data index is not filtered, in order
PositionsInView ==
    LET count == CountOf(frame.dimensions, config.focus)
        origin == cell_origin[config.focus]
    IN  SelectSeq([i \in 1..(IF count > origin THEN count - origin ELSE 0) |-> origin + i - 1],
                  LAMBDA visible_index :
                      ~InFilter(FocusFilter, map_index(count, FocusOrdering, visible_index)))

AcrossFocus == IF config.focus = "column" THEN "row" ELSE "column"

\* the visible positions of the focus axis before a position whose mapped
\* data index is not filtered
UnfilteredBefore(visible_index) ==
    { v \in 0..(visible_index - 1) :
        ~InFilter(FocusFilter,
                  map_index(CountOf(frame.dimensions, config.focus), FocusOrdering, v)) }

\* C20 as stated: the cell origin recorded in a frame is the data index, row
\* and column, of the top-left value cell in view, the first one laid out.
C20_OriginIsDataIndex ==
    (frame.shown /\ ~frame.panicked /\ frame.cells # <<>>) =>
        cell_origin = frame.cells[1].cell_index

\* C20, amended: the cell origin recorded in a frame is the visible position,
\* before the ordering is applied, of the top-left value cell in view: the
\* data index of the first cell laid out is the cell origin mapped through
\* the ordering, and in a table of default sizes the scroll offset lies in
\* the extent of the origin, after the unfiltered positions before it.
C20_OriginIsPosition ==
    (frame.shown /\ ~frame.panicked /\ frame.cells # <<>>) =>
        /\ frame.cells[1].cell_index[config.focus]
              = map_index(CountOf(frame.dimensions, config.focus), FocusOrdering,
                          cell_origin[config.focus])
        /\ frame.cells[1].cell_index[AcrossFocus] = cell_origin[AcrossFocus]
        /\ Cardinality(UnfilteredBefore(cell_origin[config.focus]))
              * (Along(outer_cell_size, config.focus) + 1)
                 = Along(frame.view.scroll, config.focus)

\* a table of three items ordered <<2, 0, 1>> scrolled by one cell: the cell
\* origin is position 1 and the top-left cell in view is data index 0
C20_Witness ==
    /\ frame.shown /\ ~frame.panicked
    /\ CountOf(frame.dimensions, config.focus) = 3
    /\ FocusOrdering = <<2, 0, 1>>
    /\ frame.view = ViewAt(config.focus, 1)
    /\ frame.cells # <<>>
    /\ cell_origin[config.focus] = 1
    /\ frame.cells[1].cell_index[config.focus] = 0

(***************************************************************************)
(* The insertion point of apply_reordering, checked under SpecReorder.     *)
(***************************************************************************)
\* the ordering a call found, extended with identity values for from and to
ExtendedBefore == Extended(before.v, Max(from, to) + 1)

\* the extended ordering once `from` has been removed
AfterRemoval == Remove(ExtendedBefore, Position(ExtendedBefore, from))

\* C21 as stated: with from # to, after `from` is removed it is inserted at
\* the position the value `to` has in the post-removal sequence.
C21_InsertAtPostRemoval ==
    (calls >= 1 /\ from # to /\ ValidOrdering(before)) =>
        /\ ~panicked
        /\ ordering = Some(Insert(AfterRemoval, Position(AfterRemoval, to), from))

\* C21, amended: with from # to, after `from` is removed it is inserted at
\* the position the value `to` had before the removal; when `from` stood
\* before `to` that is one past the position of `to` in the post-removal
\* sequence, and `from` ends up right after `to`.
C21_InsertAtPreRemoval ==
    (calls >= 1 /\ from # to /\ ValidOrdering(before)) =>
        /\ ~panicked
        /\ ordering = Some(Insert(AfterRemoval, Position(ExtendedBefore, to), from))
        /\ Position(ExtendedBefore, from) < Position(ExtendedBefore, to)
              => /\ Position(ExtendedBefore, to) = Position(AfterRemoval, to) + 1
                 /\ Position(ordering.v, from) = Position(ordering.v, to) + 1
        /\ Position(ExtendedBefore, from) > Position(ExtendedBefore, to)
              => /\ Position(ExtendedBefore, to) = Position(AfterRemoval, to)
                 /\ Position(ordering.v, from) = Position(ordering.v, to) - 1

\* a call on a permutation of three or more entries in which `from` stood
\* before `to`: it is now right after `to`
C21_Witness ==
    /\ calls >= 1
    /\ from # to
    /\ ValidOrdering(before)
    /\ Len(before.v) >= 3
    /\ Position(ExtendedBefore, from) < Position(ExtendedBefore, to)
    /\ Position(ordering.v, from) = Position(ordering.v, to) + 1

(***************************************************************************)
(* The staging of a resize, checked under Spec.                            *)
(***************************************************************************)
\* the size store of the axis of a drag action as the layout pass read it
EnsuredFor(kind) == IF kind = "SetWidth" THEN frame.ensured.column ELSE frame.ensured.row

\* C22: the size store is not modified during the layout pass of a frame:
\* every header and value cell is laid out with a size the store held when
\* the pass began, the dragged one included.  At the end of the frame the
\* staged size is written to the slot of the dragged index if and only if it
\* differs from the size committed in that slot, no other slot changes, and a
\* repaint is requested if and only if such a write happened.
C22_StagedCommit ==
    (frame.shown /\ ~frame.panicked) =>
        /\ \A i \in 1..Len(frame.headers) :
              /\ frame.headers[i].cell_kind = "ColumnHeader"
                    => frame.headers[i].size = At(frame.ensured.column, frame.headers[i].index)
              /\ frame.headers[i].cell_kind = "RowHeader"
                    => frame.headers[i].size = At(frame.ensured.row, frame.headers[i].index)
        /\ \A i \in 1..Len(frame.cells) :
              /\ frame.cells[i].height = At(frame.ensured.row, frame.cells[i].cell_index.row)
              /\ \E j \in 1..Len(frame.ensured.column) :
                    frame.cells[i].width = frame.ensured.column[j]
        /\ frame.commit.some
              <=> /\ frame.staged.some
                  /\ frame.staged.v.size
                        # At(EnsuredFor(frame.staged.v.kind), frame.staged.v.index)
        /\ frame.commit.some => frame.commit = frame.staged
        /\ frame.repaint <=> frame.commit.some
        /\ column_widths =
              IF frame.commit.some /\ frame.commit.v.kind = "SetWidth"
              THEN [frame.ensured.column EXCEPT ![frame.commit.v.index + 1] =
                                                    frame.staged.v.size]
              ELSE frame.ensured.column
        /\ row_heights =
              IF frame.commit.some /\ frame.commit.v.kind = "SetHeight"
              THEN [frame.ensured.row EXCEPT ![frame.commit.v.index + 1] = frame.staged.v.size]
              ELSE frame.ensured.row

\* a frame of a held drag whose pointer has moved: the header and the cells
\* are laid out with the committed size, the staged size is written and a
\* repaint is requested
C22_Witness ==
    /\ frame.shown /\ ~frame.panicked
    /\ drag_state.some
    /\ frame.staged.some /\ frame.commit.some /\ frame.repaint
    /\ frame.cells # <<>>
    /\ \E i \in 1..Len(frame.headers) :
          /\ frame.headers[i].index = frame.staged.v.index
          /\ AxisOfKind(frame.headers[i].cell_kind) = AxisOfKind(frame.staged.v.kind)
          /\ frame.headers[i].size # frame.staged.v.size

(***************************************************************************)
(* The windower on any axis, checked under SpecWindow.                     *)
(***************************************************************************)
\* the windower calls made so far
Queries == { q \in {w_first, w_last} : q.called }

\* the filter hides every index of the values
HidesAll(filter, values) ==
    filter.some /\ \A index \in 0..(Len(values) - 1) : InFilter(filter, index)

\* C23: the windower fails if and only if the size sequence has zero length:
\* for every non-empty size sequence and every offset, ordering and filter,
\* a filter that hides every position and orderings with out-of-range
\* entries included, it returns a result; show_inner unwraps the result, so
\* it panics on an empty sequence only.
C23_FailsOnlyWhenEmpty ==
    /\ \A q \in Queries : q.result.ok <=> Len(w_in.values) > 0
    /\ panicked <=> (Queries # {} /\ Len(w_in.values) = 0)

\* both calls made on a non-empty axis whose filter hides every index and
\* whose ordering holds an out-of-range entry: both returned a result
C23_Witness ==
    /\ w_first.called /\ w_last.called
    /\ Len(w_in.values) > 0
    /\ HidesAll(w_in.filter, w_in.values)
    /\ \E i \in 1..Len(w_in.map) : w_in.map[i] >= Len(w_in.values)
    /\ w_first.result.ok /\ w_last.result.ok

\* the offset of a call lies in the pixel range the call returned
InReturnedRange(q) == q.offset >= q.result.min /\ q.offset < q.result.max

\* C24: when the offset lies at or beyond the end of the axis, so that no
\* position's pixel range contains it and the walk runs out of sizes, the
\* windower returns the last existing position, its data index and its pixel
\* range, not an out-of-range position or an empty range.
C24_LastPositionReturned ==
    \A q \in Queries :
        (q.result.ok /\ ~InReturnedRange(q)) =>
            /\ q.result.visible_index < Len(w_in.values)
            /\ Has(w_in.values, q.result.index)
            /\ q.result.min < q.result.max
            /\ (UniformPlain /\ w_in.map = <<>>) =>
                  /\ q.result.visible_index = Len(w_in.values) - 1
                  /\ q.result.index = Len(w_in.values) - 1
                  /\ q.result.min = (Len(w_in.values) - 1) * Extent
                  /\ q.result.max = Len(w_in.values) * Extent

(***************************************************************************)
(* Claims about the layout of a frame, checked under SpecLayout.           *)
(***************************************************************************)
\* C25: a grid position, header or value, whose rectangle intersected with
\* the visible clip region has a non-positive width or height, zero
\* included, is skipped entirely: every header cell allocated and every cell
\* handed to render_cell has a clip rectangle with an area, and every action
\* comes from such a cell.
C25_DegenerateSkipped ==
    (frame.shown /\ ~frame.panicked) =>
        /\ \A i \in 1..Len(frame.headers) : frame.headers[i].hoverable
        /\ \A i \in 1..Len(frame.cells) : frame.cells[i].hoverable
        /\ frame.actions # <<>> =>
              \E i \in 1..Len(frame.cells) :
                  frame.cells[i].id = frame.over /\ frame.cells[i].hoverable

\* the header cells of the last frame for a data index of an axis
HeadersOf(cell_kind, index) ==
    { i \in 1..Len(frame.headers) :
        frame.headers[i].cell_kind = cell_kind /\ frame.headers[i].index = index }

\* C26: sizes are looked up by data index everywhere: for any ordering every
\* value cell of the column with mapped data index c is laid out with the
\* width column_widths[c], the width of c's column header in that frame, and
\* every value cell of the row with mapped data index r with the height
\* row_heights[r], the height of r's row header.
C26_SizesByDataIndex ==
    (frame.shown /\ ~frame.panicked) =>
        \A i \in 1..Len(frame.cells) :
            LET cell == frame.cells[i]
            IN  /\ cell.width = At(frame.ensured.column, cell.cell_index.column)
                /\ cell.height = At(frame.ensured.row, cell.cell_index.row)
                /\ \A h \in HeadersOf("ColumnHeader", cell.cell_index.column) :
                      frame.headers[h].size = cell.width
                /\ \A h \in HeadersOf("RowHeader", cell.cell_index.row) :
                      frame.headers[h].size = cell.height

(***************************************************************************)
(* The indices handed to the renderer, checked under SpecBrowse.           *)
(***************************************************************************)
\* C27: every render_cell call made by show passes a CellIndex with
\* row < row_count and column < column_count of the frame's dimension
\* snapshot, for any ordering and filter, stale or duplicate entries
\* included, and any scroll offset; show does not panic on the way.
C27_RenderedInBounds ==
    frame.shown =>
        /\ ~frame.panicked
        /\ \A i \in 1..Len(frame.cells) :
              /\ frame.cells[i].cell_index.row < frame.dimensions.row_count
              /\ frame.cells[i].cell_index.column < frame.dimensions.column_count

\* a scrolled frame of a table of two items whose ordering <<2, 0, 1>> names
\* an index the dimensions do not have: the cell laid out is within them
C27_Witness ==
    /\ frame.shown /\ ~frame.panicked
    /\ FocusOrdering = <<2, 0, 1>>
    /\ CountOf(frame.dimensions, config.focus) = 2
    /\ Along(frame.view.scroll, config.focus) > 0
    /\ frame.cells # <<>>
    /\ frame.cells[1].cell_index[config.focus] < 2

(***************************************************************************)
(* The two windower calls of one axis compared, checked under SpecWindow.  *)
(***************************************************************************)
\* both windower calls of the axis returned a result
BothReturned == w_first.called /\ w_last.called /\ w_first.result.ok /\ w_last.result.ok

\* C28: for one size sequence, ordering and filter, the position returned by the
\* windower is non-decreasing in the offset and its filtered count never exceeds its
\* position; so the position at the far edge is not below the position at the near
\* edge, and neither last - first + 1 + filtered nor cell_origin - first_filtered_count
\* goes below zero.
C28_PositionMonotone ==
    /\ \A q \in Queries : q.result.ok => q.result.filtered <= q.result.visible_index
    /\ BothReturned =>
         /\ w_first.offset <= w_last.offset
         /\ w_first.result.visible_index <= w_last.result.visible_index
         /\ w_last.result.visible_index - w_first.result.visible_index + 1
              + w_last.result.filtered >= 1
    /\ (w_first.called /\ w_first.result.ok) =>
         /\ cell_origin[w_kind] = w_first.result.visible_index
         /\ cell_origin[w_kind] - w_first.result.filtered >= 0

\* a filtered position lies before the near edge and another position between the
\* near and far edges
C28_Witness ==
    /\ BothReturned
    /\ w_first.result.filtered > 0
    /\ w_first.offset > 0
    /\ w_last.result.visible_index > w_first.result.visible_index
    /\ cell_origin[w_kind] = w_first.result.filtered

(***************************************************************************)
(* The default sizes of the ensure-capacity step, checked under Spec.      *)
(***************************************************************************)
\* C29: applying the caller's default sizes in the ensure-capacity step never
\* indexes past the end of the size store, whatever the length of the
\* AxisParameters list relative to the dimension count: the step of every frame
\* that lays out a table completes.
C29_DefaultsWithinStore ==
    [][ (frame'.shown /\ ~is_empty(frame'.dimensions)) =>
          /\ ~EnsureCapacity(column_widths, frame'.dimensions.column_count,
                             inner_cell_size.x, config.column_parameters).panicked
          /\ ~EnsureCapacity(row_heights, frame'.dimensions.row_count,
                             inner_cell_size.y, config.row_parameters).panicked ]_vars

(***************************************************************************)
(* The scrollable content extent of a frame, checked under SpecLayout.     *)
(***************************************************************************)
\* the header extent plus size + spacing of every data index below the count
\* that the filter does not name
ExtentOf(sizes, count, filter, header, spacing) ==
    header + SumSeq([i \in 1..count |->
                       IF IsFiltered(filter, i - 1) THEN 0 ELSE At(sizes, i - 1) + spacing])

\* C30: the content extent set for a frame along each axis is the header extent
\* plus the sum of size + spacing over exactly the data indices below that axis's
\* dimension count that are not filtered; the row extent is a function of the row
\* data alone and the column extent of the column data alone.
C30_ContentExtent ==
    (frame.shown /\ ~frame.panicked /\ ~is_empty(frame.dimensions)) =>
        /\ frame.content.x = ExtentOf(frame.ensured.column, frame.dimensions.column_count,
                                      config.columns_to_filter, outer_cell_size.x,
                                      outer_inner_difference.x + 1)
        /\ frame.content.y = ExtentOf(frame.ensured.row, frame.dimensions.row_count,
                                      config.rows_to_filter, outer_cell_size.y,
                                      outer_inner_difference.y + 1)

====
